---- MODULE Spec2Model ----
(***************************************************************************)
(* Model of the telemetry analysis engine of nginxconf-wizard:             *)
(* LogAnalyzer and BenchmarkAnalyzer (src/unnamed/part_009).               *)
(*                                                                         *)
(* Numbers.  The analyzers work on JavaScript doubles.  The model keeps    *)
(* every quantity in an integer unit: response times and latencies in      *)
(* milliseconds, percentages in hundredths of a percent (the two decimals  *)
(* that toFixed(2) keeps), and median in half milliseconds (twice its      *)
(* value), so that "mean of the two middle values" stays an integer.       *)
(*                                                                         *)
(* Optional values.  A JavaScript field that may be absent (undefined or   *)
(* null) is a sequence of length 0 (absent) or 1 (present).                *)
(***************************************************************************)
EXTENDS Integers, Sequences, FiniteSets, TLC

VARIABLES
    sample,     \* the array handed to the statistical helpers
    stat,       \* the helper that ran last and what it returned
    analyzers,  \* the fields of each analyzer object (set by its constructor)
    call,       \* the last analyze call: analyzer class, instance, content, kind
    outcome,    \* what that call returned or threw
    ref,        \* an earlier call and its outcome, kept for comparison
    cli,        \* the command-line process: its command, position and output
    pipeline,   \* one access-log analysis, statement by statement
    builder,    \* a ConfigBuilder, the builder its state was imported into, the last call
    validator,  \* a Validator object and the last call on it
    manager     \* an UpdateManager, the state file on disk and the running command

vars == <<sample, stat, analyzers, call, outcome, ref, cli, pipeline, builder, validator,
          manager>>

None == <<>>
Some(v) == <<v>>

Range(s) == {s[i] : i \in DOMAIN s}

SeqsUpTo(S, n) == UNION {[1..k -> S] : k \in 1..n}

\* list.push(item) under a condition
When(condition, item) == IF condition THEN <<item>> ELSE <<>>

(***************************************************************************)
(* Analyzer objects and calls                                              *)
(***************************************************************************)
Instances == {1, 2}

\* constructor(): LogAnalyzer sets stats = {} and recommendations = [];
\* BenchmarkAnalyzer sets results = {} and recommendations = [].  Neither field
\* is assigned anywhere else.
NewLogAnalyzer == [stats |-> <<>>, recommendations |-> <<>>]
NewBenchmarkAnalyzer == [results |-> <<>>, recommendations |-> <<>>]
NewAnalyzers == [log |-> [i \in Instances |-> NewLogAnalyzer],
                 bench |-> [i \in Instances |-> NewBenchmarkAnalyzer]]

NoCall == [analyzer |-> "none", inst |-> 0, content |-> <<>>, kind |-> ""]
NoOutcome == [ok |-> FALSE, error |-> "not called", result |-> None]
NoRef == [call |-> NoCall, outcome |-> NoOutcome]

\* no command of the CLI has been started
NoCli == [command |-> "none", pc |-> "idle", stage |-> 0, file |-> None, kind |-> "",
          errorFile |-> None, apply |-> FALSE, text |-> None, stdout |-> <<>>,
          stderr |-> <<>>, thrown |-> <<>>, exit |-> None]

\* analyzeAccessLog has not been entered
NoPipeline == [pc |-> "idle", lines |-> <<>>, results |-> None, given |-> None]

\* A JavaScript object is the function from its keys to their values: {} is
\* <<>>, and a key that is not in the domain reads as undefined.  The null of
\* config.pattern is the string "null".
\* new ConfigBuilder(): config = {pattern: null, domain: {}, ssl: {}, performance: {},
\* security: {}, features: {}, customDirectives: []}, errors = [], warnings = [].
NewConfigBuilder ==
    [config |-> [pattern |-> "null", domain |-> <<>>, ssl |-> <<>>, performance |-> <<>>,
                 security |-> <<>>, features |-> <<>>, customDirectives |-> <<>>],
     errors |-> <<>>, warnings |-> <<>>]
\* one ConfigBuilder (original), the builder its exported state was imported
\* into (copy), the last call on the original and what it returned or threw
NewBuilders == [original |-> NewConfigBuilder, copy |-> None, op |-> "new", result |-> None]

\* new Validator(): errors = [], warnings = []; no method has been called
\* (arg: the config validateConfig was called with; returned: the boolean a
\* validate* method returned; result: the object validateConfig, getErrors and
\* getWarnings returned; held: how many messages the lists held at the call)
NewValidator == [errors |-> <<>>, warnings |-> <<>>, op |-> "new", arg |-> None,
                 returned |-> None, result |-> None, held |-> 0]

\* no update command is running: the state file on disk (absent here), the
\* file as it was when the command started, and the UpdateManager's state,
\* updates, the updates whose action has run, and what was thrown
NoManager == [pc |-> "idle", disk |-> None, before |-> None, state |-> None,
              updates |-> <<>>, applied |-> <<>>, saved |-> FALSE, thrown |-> None]

\* throw new Error(...) and return results
Throw(error) == [ok |-> FALSE, error |-> error, result |-> None]
Return(results) == [ok |-> TRUE, error |-> "", result |-> Some(results)]

(***************************************************************************)
(* Bounds                                                                  *)
(***************************************************************************)
MaxSmallLen == 4
MaxSmallValue == 3
MaxLongLen == 101
ValueMod == 103
MaxLines == 3
MaxRepeatLines == 2
MaxSecurityLines == 2
MaxKeys == 11

(***************************************************************************)
(* Statistical helpers (LogAnalyzer.average / median / percentile)         *)
(***************************************************************************)

\* Array.prototype.sort((a, b) => a - b) on a copy: ascending and stable.  The
\* element at index i lands behind every smaller element and behind every equal
\* element that stood before it.
SortAscending(arr) ==
    LET n == Len(arr)
        pos == SubSeq([i \in 1..n |->
                  1 + Cardinality({j \in 1..n :
                                     arr[j] < arr[i] \/ (arr[j] = arr[i] /\ j < i)})], 1, n)
        from == SubSeq([k \in 1..n |-> CHOOSE i \in 1..n : pos[i] = k], 1, n)
    IN  [k \in 1..n |-> arr[from[k]]]

\* Math.ceil(a / b) for a >= 0, b > 0
Ceil(a, b) == (a + b - 1) \div b

\* sorted[index] of a JavaScript array: undefined outside 0..length-1
At(arr, index) == IF index + 1 \in DOMAIN arr THEN Some(arr[index + 1]) ELSE None

percentileIndex(n, p) == Ceil(p * n, 100) - 1

percentileFloor(arr, p) ==
    LET sorted == SortAscending(arr)
    IN  At(sorted, ((p * Len(sorted)) \div 100) - 1)

percentile(arr, p) ==
    LET sorted == SortAscending(arr)
        index == percentileIndex(Len(sorted), p)
    IN  At(sorted, index)

\* median, in half units: 2 * sorted[mid] when the length is odd, the sum of the
\* two middle values when it is even.
medianUnsorted(arr) ==
    LET mid == Len(arr) \div 2
    IN  IF Len(arr) % 2 = 1 THEN Some(2 * arr[mid + 1])
        ELSE IF mid >= 1 THEN Some(arr[mid] + arr[mid + 1]) ELSE None

median(arr) ==
    LET sorted == SortAscending(arr)
        mid == Len(sorted) \div 2
    IN  IF Len(sorted) % 2 = 1 THEN Some(2 * sorted[mid + 1])
        ELSE IF mid >= 1 THEN Some(sorted[mid] + sorted[mid + 1]) ELSE None

(***************************************************************************)
(* Samples the helpers are applied to                                      *)
(***************************************************************************)
SmallSamples == SeqsUpTo(0..MaxSmallValue, MaxSmallLen)

Multipliers == {1, 5, 12, 102}

PatternSample(n, m) == [i \in 1..n |-> (i * m) % ValueMod]

LongSamples == {PatternSample(n, m) : n \in 1..MaxLongLen, m \in Multipliers}

DocumentedSamples == {<<10, 20, 30, 40, 50>>, <<50, 10, 40, 20, 30>>}

Samples == SmallSamples \cup LongSamples \cup DocumentedSamples

NoStat == [op |-> "none", p |-> 0, value |-> None]

InitStats ==
    /\ sample \in Samples
    /\ stat = NoStat
    /\ analyzers = NewAnalyzers
    /\ call = NoCall
    /\ outcome = NoOutcome
    /\ ref = NoRef
    /\ cli = NoCli
    /\ pipeline = NoPipeline
    /\ builder = NewBuilders
    /\ validator = NewValidator
    /\ manager = NoManager

\* analyzeAccessLog calls the helpers only on a non-empty responseTimes array
RunMedian ==
    /\ Len(sample) > 0
    /\ stat' = [op |-> "median", p |-> 50, value |-> median(sample)]
    /\ UNCHANGED <<sample, analyzers, call, outcome, ref, cli, pipeline, builder, validator, manager>>

RunPercentile(p) ==
    /\ Len(sample) > 0
    /\ stat' = [op |-> "percentile", p |-> p, value |-> percentile(sample, p)]
    /\ UNCHANGED <<sample, analyzers, call, outcome, ref, cli, pipeline, builder, validator, manager>>

NextStats ==
    \/ RunMedian
    \/ RunPercentile(95)
    \/ RunPercentile(99)

SpecStats == InitStats /\ [][NextStats]_vars

(***************************************************************************)
(* BenchmarkAnalyzer                                                       *)
(*                                                                         *)
(* A benchmark output blob is modelled by what the analyzer's substring    *)
(* and pattern tests can see of it:                                        *)
(*   frags    the banner fragments that occur in it (String.includes)      *)
(*   dialect  the tool in whose syntax its summary lines are written; a    *)
(*            parser's patterns match only lines of its own tool           *)
(*   json     present when the whole blob is one JSON document             *)
(*   latency, rps, total, errors, socket                                   *)
(*            the summary lines, each absent or carrying the tokens the    *)
(*            pattern captures                                             *)
(* Times of a benchmark result are in microseconds (wrk prints us, ms, s). *)
(***************************************************************************)
Tools == <<"wrk", "ab", "k6", "autocannon", "siege">>

Includes(content, fragment) == fragment \in content.frags

\* String.prototype.toLowerCase on the strings that occur as tool names and units
toLowerCase(str) ==
    CASE str = "WRK" -> "wrk"
      [] str = "Ab" -> "ab"
      [] str = "ApacheBench" -> "apachebench"
      [] str = "AUTO" -> "auto"
      [] str = "Bot" -> "bot"
      [] str = "UNION" -> "union"
      [] str = "ETC" -> "etc"
      [] str = "MS" -> "ms"
      [] str = "S" -> "s"
      [] OTHER -> str

\* normalizeTime: to milliseconds in the source, here in microseconds
normalizeTime(value, unit) ==
    LET u == toLowerCase(unit)
    IN  CASE u = "us" -> value
          [] u = "ms" -> value * 1000
          [] u = "s" -> value * 1000 * 1000
          [] u = "m" -> value * 60000 * 1000
          [] u = "h" -> value * 3600000 * 1000
          [] OTHER -> value * 1000

Ms(n) == n * 1000

\* detectTool: None stands for the thrown 'Could not detect benchmark tool'
detectToolAbFirst(content) ==
    IF Includes(content, "This is ApacheBench") \/ Includes(content, "ab -")
    THEN Some("ab")
    ELSE IF /\ Includes(content, "Running ")
            /\ Includes(content, "threads and ")
            /\ Includes(content, "connections")
    THEN Some("wrk")
    ELSE IF Includes(content, "k6 run") \/ Includes(content, "execution: local")
    THEN Some("k6")
    ELSE IF Includes(content, "autocannon") \/ Includes(content, "Stat    2.5%")
    THEN Some("autocannon")
    ELSE IF Includes(content, "Transactions:") /\ Includes(content, "siege")
    THEN Some("siege")
    ELSE None

detectTool(content) ==
    IF /\ Includes(content, "Running ")
       /\ Includes(content, "threads and ")
       /\ Includes(content, "connections")
    THEN Some("wrk")
    ELSE IF Includes(content, "This is ApacheBench") \/ Includes(content, "ab -")
    THEN Some("ab")
    ELSE IF Includes(content, "k6 run") \/ Includes(content, "execution: local")
    THEN Some("k6")
    ELSE IF Includes(content, "autocannon") \/ Includes(content, "Stat    2.5%")
    THEN Some("autocannon")
    ELSE IF Includes(content, "Transactions:") /\ Includes(content, "siege")
    THEN Some("siege")
    ELSE None

Rec(severity, category, message) ==
    [severity |-> severity, category |-> category, message |-> message]

\* x > limit for a JavaScript number that may be undefined (then false)
Gt(x, limit) == x # None /\ x[1] > limit
\* x < limit with a missing x taken as 0
LtOrMissing(x, limit) == x = None \/ x[1] < limit

Lt(x, limit) == x # None /\ x[1] < limit

Sum4(s) == s[1] + s[2] + s[3] + s[4]

\* the rate compared with >= instead of >
RateAtLeast(errors, total, pct) == errors * 100 >= pct * total

\* (errors / totalRequests) * 100 > pct, with errors > 0; a total of 0 gives
\* Infinity, which is larger than every pct
RateAbove(errors, total, pct) == errors * 100 > pct * total

\* generateRecommendations(results)
generateRecommendations(results) ==
    LET metrics == results.metrics
        latency ==
            IF metrics.latency = None THEN <<>>
            ELSE LET avgLatency == metrics.latency[1].avg
                 IN  IF Gt(avgLatency, Ms(1000))
                     THEN <<Rec("high", "latency", "Very high latency detected (>1s)")>>
                     ELSE IF Gt(avgLatency, Ms(500))
                     THEN <<Rec("medium", "latency", "High latency detected (>500ms)")>>
                     ELSE IF Gt(avgLatency, Ms(200))
                     THEN <<Rec("low", "latency", "Moderate latency detected (>200ms)")>>
                     ELSE <<>>
        throughput ==
            IF metrics.requestsPerSec = None THEN <<>>
            ELSE LET rps == metrics.requestsPerSec[1].avg
                 IN  IF Lt(rps, 100)
                     THEN <<Rec("medium", "throughput", "Low requests/sec (<100 RPS)")>>
                     ELSE IF Gt(rps, 10000)
                     THEN <<Rec("info", "throughput", "Excellent throughput (>10k RPS)")>>
                     ELSE <<>>
        errors ==
            IF Gt(results.errors, 0)
            THEN IF results.summary = None THEN <<>>
                 ELSE LET e == results.errors[1]
                          t == results.summary[1].totalRequests
                      IN  IF RateAbove(e, t, 5)
                          THEN <<Rec("high", "errors", "High error rate")>>
                          ELSE IF RateAbove(e, t, 1)
                          THEN <<Rec("medium", "errors", "Moderate error rate")>>
                          ELSE <<>>
            ELSE <<>>
        socket ==
            IF results.socketErrors = None THEN <<>>
            ELSE IF Sum4(results.socketErrors[1]) > 0
                 THEN <<Rec("high", "socket-errors", "Socket errors detected")>>
                 ELSE <<>>
    IN  latency \o throughput \o errors \o socket

LetterStrict(score) ==
    IF score > 90 THEN "A"
    ELSE IF score > 80 THEN "B"
    ELSE IF score > 70 THEN "C"
    ELSE IF score > 60 THEN "D"
    ELSE "F"

\* the score-to-grade ladder at the end of calculateGrade
Letter(score) ==
    IF score >= 90 THEN "A"
    ELSE IF score >= 80 THEN "B"
    ELSE IF score >= 70 THEN "C"
    ELSE IF score >= 60 THEN "D"
    ELSE "F"

\* metrics.latency?.avg used as a condition: undefined and 0 are falsy
LatencyAvg(results) ==
    IF results.metrics.latency = None THEN None
    ELSE LET avg == results.metrics.latency[1].avg
         IN  IF avg # None /\ avg[1] # 0 THEN avg ELSE None

\* calculateGrade(results)
calculateGrade(results) ==
    LET latency == LatencyAvg(results)
        afterLatency ==
            100 - (IF Gt(latency, Ms(1000)) THEN 40
                   ELSE IF Gt(latency, Ms(500)) THEN 25
                   ELSE IF Gt(latency, Ms(200)) THEN 15
                   ELSE IF Gt(latency, Ms(100)) THEN 5
                   ELSE 0)
        afterErrors ==
            IF Gt(results.errors, 0) /\ results.summary # None
            THEN LET e == results.errors[1]
                     t == results.summary[1].totalRequests
                 IN  afterLatency - (IF RateAbove(e, t, 10) THEN 30
                                     ELSE IF RateAbove(e, t, 5) THEN 20
                                     ELSE IF RateAbove(e, t, 1) THEN 10
                                     ELSE 5)
            ELSE afterLatency
        score ==
            IF results.socketErrors # None
            THEN LET total == Sum4(results.socketErrors[1])
                 IN  afterErrors - (IF total > 100 THEN 20
                                    ELSE IF total > 10 THEN 10
                                    ELSE IF total > 0 THEN 5
                                    ELSE 0)
            ELSE afterErrors
    IN  Letter(score)


\* normalizeNumber(value): value is the captured text, a number and its suffix
normalizeNumber(token) ==
    IF token.suffix = "k" THEN token.value * 1000
    ELSE IF token.suffix = "m" THEN token.value * 1000000
    ELSE token.value

\* The capture group ([\d.]+) of /([\d.]+)k?/ holds the digits only: the
\* optional k is matched outside the group.
Digits(token) == [value |-> token.value, suffix |-> ""]

\* a summary line of the blob, seen by the parser of `tool`
Line(content, tool, field) == IF content.dialect = tool THEN content[field] ELSE None

BenchResults(tool, metrics, errors, summary, socketErrors) ==
    LET results == [tool |-> tool, metrics |-> metrics, errors |-> errors,
                    summary |-> summary, socketErrors |-> socketErrors]
    IN  [tool |-> tool, metrics |-> metrics, errors |-> errors,
         summary |-> summary, socketErrors |-> socketErrors,
         recommendations |-> generateRecommendations(results),
         grade |-> calculateGrade(results)]

Metrics(latency, requestsPerSec) == [latency |-> latency, requestsPerSec |-> requestsPerSec]
Avg(value) == Some([avg |-> value])

\* analyzeWrk(content)
analyzeWrk(content) ==
    LET latencyMatch == Line(content, "wrk", "latency")
        reqSecMatch == Line(content, "wrk", "rps")
        summaryMatch == Line(content, "wrk", "total")
        errorMatch == Line(content, "wrk", "errors")
        socketMatch == Line(content, "wrk", "socket")
    IN  BenchResults("wrk",
            Metrics(IF latencyMatch # None
                    THEN Avg(Some(normalizeTime(latencyMatch[1].value, latencyMatch[1].unit)))
                    ELSE None,
                    IF reqSecMatch # None
                    THEN Avg(Some(normalizeNumber(Digits(reqSecMatch[1]))))
                    ELSE None),
            IF errorMatch # None THEN errorMatch ELSE Some(0),
            IF summaryMatch # None
            THEN Some([totalRequests |-> normalizeNumber(Digits(summaryMatch[1]))])
            ELSE None,
            socketMatch)

\* analyzeApacheBench(content): 'Time per request: <n> [ms] (mean)'
analyzeApacheBench(content) ==
    LET rpsMatch == Line(content, "ab", "rps")
        timeMatch == Line(content, "ab", "latency")
        totalMatch == Line(content, "ab", "total")
        failedMatch == Line(content, "ab", "errors")
    IN  BenchResults("ab",
            Metrics(IF timeMatch # None /\ timeMatch[1].unit = "ms"
                    THEN Avg(Some(Ms(timeMatch[1].value)))
                    ELSE None,
                    IF rpsMatch # None THEN Avg(Some(rpsMatch[1].value)) ELSE None),
            IF failedMatch # None THEN failedMatch ELSE Some(0),
            IF totalMatch # None
            THEN Some([totalRequests |-> totalMatch[1].value])
            ELSE None,
            None)

\* analyzeK6 with the text patterns tried on every content, and the structured
\* payload used only where they find nothing
analyzeK6ScanAlways(content) ==
    LET durationMatch == Line(content, "k6", "latency")
        rpsMatch == Line(content, "k6", "rps")
    IN  IF content.json # None /\ durationMatch = None /\ rpsMatch = None
        THEN LET json == content.json[1]
             IN  BenchResults("k6",
                     IF json.metrics # None
                     THEN Metrics(Avg(IF json.metrics[1].http_req_duration = None THEN None
                                      ELSE Some(Ms(json.metrics[1].http_req_duration[1]))),
                                  Avg(json.metrics[1].http_reqs))
                     ELSE Metrics(None, None),
                     Some(0), None, None)
        ELSE BenchResults("k6",
                 Metrics(IF durationMatch # None
                         THEN Avg(Some(normalizeTime(durationMatch[1].value,
                                                     durationMatch[1].unit)))
                         ELSE None,
                         IF rpsMatch # None THEN Avg(Some(rpsMatch[1].value)) ELSE None),
                 Some(0), None, None)

\* analyzeK6(content): JSON.parse first, the text patterns in the catch block.
\* json.metrics.http_req_duration?.values?.avg and json.metrics.http_reqs?.values?.rate
\* are undefined when a link of the chain is missing.
analyzeK6(content) ==
    IF content.json # None
    THEN LET json == content.json[1]
         IN  BenchResults("k6",
                 IF json.metrics # None
                 THEN Metrics(Avg(IF json.metrics[1].http_req_duration = None THEN None
                                  ELSE Some(Ms(json.metrics[1].http_req_duration[1]))),
                              Avg(json.metrics[1].http_reqs))
                 ELSE Metrics(None, None),
                 Some(0), None, None)
    ELSE LET durationMatch == Line(content, "k6", "latency")
             rpsMatch == Line(content, "k6", "rps")
         IN  BenchResults("k6",
                 Metrics(IF durationMatch # None
                         THEN Avg(Some(normalizeTime(durationMatch[1].value,
                                                     durationMatch[1].unit)))
                         ELSE None,
                         IF rpsMatch # None THEN Avg(Some(rpsMatch[1].value)) ELSE None),
                 Some(0), None, None)

\* analyzeAutocannon(content): the result object has no errors field
analyzeAutocannon(content) ==
    LET rpsMatch == Line(content, "autocannon", "rps")
        latencyMatch == Line(content, "autocannon", "latency")
    IN  BenchResults("autocannon",
            Metrics(IF latencyMatch # None /\ latencyMatch[1].unit = "ms"
                    THEN Avg(Some(Ms(latencyMatch[1].value)))
                    ELSE None,
                    IF rpsMatch # None THEN Avg(Some(rpsMatch[1].value)) ELSE None),
            None, None, None)

\* analyzeSiege(content): 'Response time: <n> secs', converted to ms
analyzeSiege(content) ==
    LET transMatch == Line(content, "siege", "total")
        rateMatch == Line(content, "siege", "rps")
        responseMatch == Line(content, "siege", "latency")
    IN  BenchResults("siege",
            Metrics(IF responseMatch # None /\ responseMatch[1].unit = "secs"
                    THEN Avg(Some(Ms(responseMatch[1].value * 1000)))
                    ELSE None,
                    IF rateMatch # None THEN Avg(Some(rateMatch[1].value)) ELSE None),
            Some(0),
            IF transMatch # None
            THEN Some([totalRequests |-> transMatch[1].value])
            ELSE None,
            None)

\* the switch of BenchmarkAnalyzer.analyze
analyzeTool(content, tool) ==
    LET t == toLowerCase(tool)
    IN  CASE t = "wrk" -> Return(analyzeWrk(content))
          [] t \in {"ab", "apachebench"} -> Return(analyzeApacheBench(content))
          [] t = "k6" -> Return(analyzeK6(content))
          [] t = "autocannon" -> Return(analyzeAutocannon(content))
          [] t = "siege" -> Return(analyzeSiege(content))
          [] OTHER -> Throw("Unknown benchmark tool")

\* BenchmarkAnalyzer.analyze(content, tool = 'auto')
analyzeBenchmark(content, tool) ==
    IF tool = "auto"
    THEN LET detected == detectTool(content)
         IN  IF detected = None
             THEN Throw("Could not detect benchmark tool")
             ELSE analyzeTool(content, detected[1])
    ELSE analyzeTool(content, tool)

(***************************************************************************)
(* Benchmark blobs the analyzer is called with                             *)
(***************************************************************************)
Fragments == {"Running ", "threads and ", "connections", "This is ApacheBench", "ab -",
              "k6 run", "execution: local", "autocannon", "Stat    2.5%",
              "Transactions:", "siege"}

Banner(tool) ==
    CASE tool = "wrk" -> {"Running ", "threads and ", "connections"}
      [] tool = "ab" -> {"This is ApacheBench"}
      [] tool = "k6" -> {"k6 run"}
      [] tool = "autocannon" -> {"autocannon"}
      [] tool = "siege" -> {"Transactions:", "siege"}
      [] OTHER -> {}

Blob(frags, dialect, json, latency, rps, total, errors, socket) ==
    [frags |-> frags, dialect |-> dialect, json |-> json, latency |-> latency,
     rps |-> rps, total |-> total, errors |-> errors, socket |-> socket]

Opt(S) == {None} \cup {Some(x) : x \in S}

Time(v, u) == [value |-> v, unit |-> u]
Num(v, s) == [value |-> v, suffix |-> s]

LatenciesMs == {0, 100, 101, 200, 201, 500, 501, 1000, 1001, 1200}
WrkLatencies == {Time(v, "ms") : v \in LatenciesMs}
                  \cup {Time(999, "us"), Time(2, "s"), Time(1, "m")}
Rates == {99, 100, 10000, 10001}
Totals == {0, 100}
ErrorCounts == {0, 1, 2, 5, 6, 10, 11}
SocketCounts == {<<0, 0, 0, 0>>, <<1, 0, 0, 0>>, <<0, 4, 3, 3>>, <<5, 0, 0, 6>>,
                 <<50, 50, 0, 0>>, <<0, 0, 1, 100>>}

WrkBlobs ==
    {Blob(Banner("wrk"), "wrk", None, l, r, t, e, s) :
        l \in Opt(WrkLatencies),
        r \in Opt({Num(v, "") : v \in Rates} \cup {Num(12, "k")}),
        t \in Opt({Num(v, "") : v \in Totals} \cup {Num(12, "k")}),
        e \in Opt(ErrorCounts),
        s \in Opt(SocketCounts)}

AbBlobs ==
    {Blob(Banner("ab"), "ab", None, l, r, t, e, None) :
        l \in Opt({Time(v, "ms") : v \in LatenciesMs}),
        r \in Opt({Num(v, "") : v \in Rates}),
        t \in Opt({Num(v, "") : v \in Totals}),
        e \in Opt(ErrorCounts)}

K6Metrics == [http_req_duration : Opt(LatenciesMs), http_reqs : Opt(Rates)]

K6Blobs ==
    {Blob(f, "k6", None, l, r, None, None, None) :
        f \in {Banner("k6")},
        l \in Opt({Time(v, "ms") : v \in LatenciesMs} \cup {Time(2, "s")}),
        r \in Opt({Num(v, "") : v \in Rates})}
    \cup
    {Blob(f, "k6", Some([metrics |-> m]), None, None, None, None, None) :
        f \in {{}, Banner("k6")},
        m \in Opt(K6Metrics)}
    \cup
    \* a JSON document whose strings quote the lines of a text summary
    {Blob(Banner("k6"), "k6", Some([metrics |-> m]), Some(Time(1200, "ms")),
          Some(Num(99, "")), None, None, None) :
        m \in Opt(K6Metrics)}

AutocannonBlobs ==
    {Blob(Banner("autocannon"), "autocannon", None, l, r, None, None, None) :
        l \in Opt({Time(v, "ms") : v \in LatenciesMs}),
        r \in Opt({Num(v, "") : v \in Rates})}

SiegeBlobs ==
    {Blob(Banner("siege"), "siege", None, l, r, t, None, None) :
        l \in Opt({Time(v, "secs") : v \in {0, 1, 2}}),
        r \in Opt({Num(v, "") : v \in Rates}),
        t \in Opt({Num(v, "") : v \in Totals})}

MetricBlobs == WrkBlobs \cup AbBlobs \cup K6Blobs \cup AutocannonBlobs \cup SiegeBlobs

\* blobs with every combination of banner fragments, around one wrk summary
BannerBlobs ==
    {Blob(f, "wrk", None, Some(Time(1200, "ms")), None, Some(Num(100, "")), None, None) :
        f \in SUBSET Fragments}

ToolNames == {"auto", "wrk", "ab", "k6", "autocannon", "siege", "apachebench",
              "WRK", "Ab", "ApacheBench", "AUTO", "jmeter", "access", ""}

BenchmarkCalls ==
    {[content |-> c, kind |-> "auto"] : c \in BannerBlobs}
    \cup {[content |-> c, kind |-> c.dialect] : c \in MetricBlobs}
    \cup {[content |-> Blob(Banner(d), d, None, Some(Time(1200, "ms")), None, None, None, None),
           kind |-> k] : d \in Range(Tools), k \in ToolNames}

\* analyzer.analyze(content, tool) on BenchmarkAnalyzer object i
AnalyzeBenchmark(i, content, tool) ==
    /\ call = NoCall
    /\ call' = [analyzer |-> "bench", inst |-> i, content |-> content, kind |-> tool]
    /\ outcome' = analyzeBenchmark(content, tool)
    /\ analyzers' = analyzers
    /\ UNCHANGED <<sample, stat, ref, cli, pipeline, builder, validator, manager>>

(***************************************************************************)
(* LogAnalyzer                                                             *)
(*                                                                         *)
(* A log blob is the sequence of its lines (content.split('\n')).  A line  *)
(* is modelled by what the analyzer's patterns can see of it:              *)
(*   fmt      "combined": the line has the combined access-log shape       *)
(*            "error":    the line has the error-log shape                 *)
(*                        date time [level] pid#tid: message               *)
(*            "text":     any other text;  "blank": only white space       *)
(*   ip, method, path, status, ua, rt      the tokens of a combined line;  *)
(*            path is the sequence of its segments, "?" starting the query *)
(*            string; ua is the sequence of the words of the user agent;   *)
(*            rt is the rt=<seconds> annotation, seconds and milliseconds  *)
(*   level, message                        the tokens of an error line;    *)
(*            message is <<first 100 characters, rest>>                    *)
(*   stamped  a text line holding 'date time [error]' without the rest of  *)
(*            the error-log shape                                          *)
(*   quoted   an error or text line that quotes a request line             *)
(*            ('GET /x HTTP/1.1')                                          *)
(***************************************************************************)
HttpMethods == {"GET", "POST", "PUT", "DELETE", "PATCH", "HEAD", "OPTIONS"}

LogLine(fmt, ip, method, path, status, ua, rt, level, message, stamped, quoted) ==
    [fmt |-> fmt, ip |-> ip, method |-> method, path |-> path, status |-> status,
     ua |-> ua, rt |-> rt, level |-> level, message |-> message,
     stamped |-> stamped, quoted |-> quoted]

AccessLine(ip, method, path, status, ua, rt) ==
    LogLine("combined", ip, method, path, status, ua, rt, "", <<"", "">>, FALSE, FALSE)
ErrorLine(level, message, quoted) ==
    LogLine("error", "", "", <<>>, 0, <<>>, None, level, message, FALSE, quoted)
TextLine(stamped, quoted) ==
    LogLine("text", "", "", <<>>, 0, <<>>, None, "", <<"", "">>, stamped, quoted)
BlankLine == LogLine("blank", "", "", <<>>, 0, <<>>, None, "", <<"", "">>, FALSE, FALSE)

\* /\d{4}\/\d{2}\/\d{2}\s+\d{2}:\d{2}:\d{2}\s+\[error\]/ matches in the line
HasErrorSignature(line) ==
    \/ line.fmt = "error" /\ line.level = "error"
    \/ line.fmt = "text" /\ line.stamped

\* /(GET|POST|PUT|DELETE|PATCH|HEAD|OPTIONS)\s+.*?\s+HTTP\/[\d.]+/ matches in the line
HasRequestSignature(line) ==
    \/ line.fmt = "combined" /\ line.method \in HttpMethods
    \/ line.fmt \in {"error", "text"} /\ line.quoted

\* content.match(pattern): the patterns do not cross a line break
Matches(content, Signature(_)) == \E i \in DOMAIN content : Signature(content[i])

\* detectLogType: None stands for the thrown 'Could not detect log type'
detectLogTypeAccessFirst(content) ==
    IF Matches(content, HasRequestSignature) THEN Some("access")
    ELSE IF Matches(content, HasErrorSignature) THEN Some("error")
    ELSE None

detectLogType(content) ==
    IF Matches(content, HasErrorSignature) THEN Some("error")
    ELSE IF Matches(content, HasRequestSignature) THEN Some("access")
    ELSE None

\* the elements of seq at the indices in S, in their order
Pick(seq, S) ==
    [k \in 1..Cardinality(S) |->
        seq[CHOOSE i \in S : Cardinality({j \in S : j <= i}) = k]]

\* content.split('\n').filter(line => line.trim())
NonBlank(content) == Pick(content, {i \in DOMAIN content : content[i].fmt # "blank"})

\* path.split('?')[0]
StripQuery(path) ==
    LET marks == {i \in DOMAIN path : path[i] = "?"}
    IN  IF marks = {} THEN path
        ELSE SubSeq(path, 1, (CHOOSE i \in marks : \A j \in marks : i <= j) - 1)

\* parseFloat(rtMatch[1]) * 1000, in whole milliseconds: exact for the sampled
\* texts (0.250, 1.200, 0.000); responseTimeOf below gives the double for any text
RtMillis(rt) == rt.sec * 1000 + rt.milli

\* parseAccessLogLine(line): None stands for null
parseAccessLogLine(line) ==
    IF line.fmt = "combined"
    THEN Some([ip |-> line.ip, method |-> line.method, path |-> StripQuery(line.path),
               status |-> line.status, userAgent |-> line.ua,
               responseTime |-> IF line.rt # None THEN Some(RtMillis(line.rt[1])) ELSE None])
    ELSE None

\* parseErrorLogLine(line)
parseErrorLogLine(line) ==
    IF line.fmt = "error"
    THEN Some([level |-> line.level, message |-> line.message])
    ELSE None

\* lines.forEach(line => { const parsed = parse(line); if (!parsed) return; ... }):
\* the records of the lines that parse, in line order
Parsed(lines, parse(_)) ==
    LET hits == Pick(lines, {i \in DOMAIN lines : parse(lines[i]) # None})
    IN  [k \in DOMAIN hits |-> parse(hits[k])[1]]

\* counts[key] = (counts[key] || 0) + 1 over the keys, as Object.entries lists a
\* map with string keys: one [key, count] per key, in first-seen order
CountKeys(keys) ==
    LET firsts == {i \in DOMAIN keys : \A j \in 1..(i - 1) : keys[j] # keys[i]}
        first == Pick(keys, firsts)
    IN  [k \in DOMAIN first |->
            [key |-> first[k],
             count |-> Cardinality({i \in DOMAIN keys : keys[i] = first[k]})]]

Field(records, name) == [i \in DOMAIN records |-> records[i][name]]

\* the sort with entries of equal count in reverse order
SortByCountReversing(entries) ==
    LET n == Len(entries)
        pos == SubSeq([i \in 1..n |->
                  1 + Cardinality({j \in 1..n :
                        \/ entries[j].count > entries[i].count
                        \/ (entries[j].count = entries[i].count /\ j > i)})], 1, n)
        from == SubSeq([k \in 1..n |-> CHOOSE i \in 1..n : pos[i] = k], 1, n)
    IN  [k \in 1..n |-> entries[from[k]]]

\* entries.sort((a, b) => b[1] - a[1]): descending count, stable
SortByCount(entries) ==
    LET n == Len(entries)
        pos == SubSeq([i \in 1..n |->
                  1 + Cardinality({j \in 1..n :
                        \/ entries[j].count > entries[i].count
                        \/ (entries[j].count = entries[i].count /\ j < i)})], 1, n)
        from == SubSeq([k \in 1..n |-> CHOOSE i \in 1..n : pos[i] = k], 1, n)
    IN  [k \in 1..n |-> entries[from[k]]]

\* ((count / total) * 100).toFixed(2), in hundredths of a percent, rounded half
\* up; None stands for "NaN" (0 / 0)
Percentage(count, total) ==
    IF total = 0 THEN None ELSE Some((2 * count * 10000 + total) \div (2 * total))

\* the sorted entries without the slice(0, 10)
TopEntries(entries, total) ==
    LET sorted == SortByCount(entries)
    IN  [k \in DOMAIN sorted |->
            [key |-> sorted[k].key, count |-> sorted[k].count,
             percentage |-> Percentage(sorted[k].count, total)]]

\* .sort(...).slice(0, 10).map(([key, count]) => ({ key, count, percentage }))
TopTen(entries, total) ==
    LET sorted == SortByCount(entries)
        top == SubSeq(sorted, 1, IF Len(sorted) < 10 THEN Len(sorted) ELSE 10)
    IN  [k \in DOMAIN top |->
            [key |-> top[k].key, count |-> top[k].count,
             percentage |-> Percentage(top[k].count, total)]]

\* isBot(userAgent): one of the patterns occurs in it, whatever the case
botPatterns == {"bot", "crawler", "spider", "scraper", "curl", "wget", "python", "java"}

isBot(userAgent) == \E i \in DOMAIN userAgent : toLowerCase(userAgent[i]) \in botPatterns

RECURSIVE SumCounts(_)
SumCounts(entries) ==
    IF entries = <<>> THEN 0
    ELSE entries[1].count + SumCounts(SubSeq(entries, 2, Len(entries)))

\* the counts of the entries whose key satisfies Test
CountWhere(entries, Test(_)) ==
    SumCounts(Pick(entries, {i \in DOMAIN entries : Test(entries[i].key)}))

\* categorizeStatusCodes(statusCounts, total)
Share(count, total) == [count |-> count, percentage |-> Percentage(count, total)]

IsSuccess(code) == code >= 200 /\ code < 300
IsRedirect(code) == code >= 300 /\ code < 400
IsClientError(code) == code >= 400 /\ code < 500
IsServerError(code) == code >= 500 /\ code < 600

categorizeStatusCodes(statusCounts, total) ==
    [success |-> Share(CountWhere(statusCounts, IsSuccess), total),
     redirect |-> Share(CountWhere(statusCounts, IsRedirect), total),
     clientError |-> Share(CountWhere(statusCounts, IsClientError), total),
     serverError |-> Share(CountWhere(statusCounts, IsServerError), total)]

RECURSIVE SumSeq(_)
SumSeq(s) == IF s = <<>> THEN 0 ELSE s[1] + SumSeq(SubSeq(s, 2, Len(s)))

\* average(arr): the quotient sum / length, kept as the pair
average(arr) == [sum |-> SumSeq(arr), count |-> Len(arr)]

\* Math.max(...arr)
Max(arr) == CHOOSE v \in Range(arr) : \A w \in Range(arr) : w <= v

\* generateAccessLogRecommendations(results)
generateAccessLogRecommendations(results) ==
    LET errors ==
            IF /\ results.statusBreakdown.serverError.count > 0
               /\ Gt(results.statusBreakdown.serverError.percentage, 500)
            THEN <<Rec("high", "errors", "High server error rate")>>
            ELSE <<>>
        notFoundCount ==
            CountWhere(results.statusCodes, LAMBDA code : code = 404)
        notFound ==
            \* (notFoundCount / totalRequests) * 100 > 10; 0 / 0 is NaN
            IF results.totalRequests > 0 /\ notFoundCount * 100 > 10 * results.totalRequests
            THEN <<Rec("medium", "not-found", "High 404 rate")>>
            ELSE <<>>
        performance ==
            IF results.responseTimeStats = None THEN <<>>
            ELSE LET p95 == results.responseTimeStats[1].p95
                 IN  IF Gt(p95, 1000)
                     THEN <<Rec("high", "performance", "Slow response times")>>
                     ELSE IF Gt(p95, 500)
                     THEN <<Rec("medium", "performance", "Moderate response times")>>
                     ELSE <<>>
        bots ==
            IF Gt(results.botTraffic.percentage, 3000)
            THEN <<Rec("medium", "bots", "High bot traffic")>>
            ELSE <<>>
        security ==
            IF Len(results.topIPs) > 0 /\ Gt(results.topIPs[1].percentage, 5000)
            THEN <<Rec("high", "security", "Single IP accounts for most traffic")>>
            ELSE <<>>
    IN  errors \o notFound \o performance \o bots \o security

\* /('|"|;|--|\/\*|\*\/|union|select|insert|delete|drop|update|exec)/i on a path
sqlIndicators == {"'", "\"", ";", "--", "/*", "*/", "union", "select", "insert",
                  "delete", "drop", "update", "exec"}

IsInjectionPath(path) == \E i \in DOMAIN path : toLowerCase(path[i]) \in sqlIndicators

\* /\.\.|\/etc\/|\/proc\/|\/var\//i on a path: a segment "..", or one of the
\* system directories followed by a further segment
IsTraversalPath(path) ==
    \E i \in DOMAIN path :
        \/ path[i] = ".."
        \/ toLowerCase(path[i]) \in {"etc", "proc", "var"} /\ i < Len(path)

Issue(type, message, paths) ==
    [severity |-> "high", type |-> type, message |-> message, paths |-> paths]

Keys(entries) == [k \in DOMAIN entries |-> entries[k].key]

\* detectSecurityIssues with the traversal scan only run when no injection was found
detectSecurityIssuesExclusive(results) ==
    LET top == Keys(results.topPaths)
        sqlInjectionPaths == Pick(top, {i \in DOMAIN top : IsInjectionPath(top[i])})
        traversalPaths == Pick(top, {i \in DOMAIN top : IsTraversalPath(top[i])})
    IN  IF Len(sqlInjectionPaths) > 0
        THEN <<Issue("sql-injection", "Potential SQL injection attempts detected",
                     sqlInjectionPaths)>>
        ELSE IF Len(traversalPaths) > 0
        THEN <<Issue("path-traversal", "Potential path traversal attempts detected",
                     traversalPaths)>>
        ELSE <<>>

\* detectSecurityIssues(results)
detectSecurityIssues(results) ==
    LET top == Keys(results.topPaths)
        sqlInjectionPaths == Pick(top, {i \in DOMAIN top : IsInjectionPath(top[i])})
        traversalPaths == Pick(top, {i \in DOMAIN top : IsTraversalPath(top[i])})
    IN  (IF Len(sqlInjectionPaths) > 0
         THEN <<Issue("sql-injection", "Potential SQL injection attempts detected",
                      sqlInjectionPaths)>>
         ELSE <<>>)
        \o
        (IF Len(traversalPaths) > 0
         THEN <<Issue("path-traversal", "Potential path traversal attempts detected",
                      traversalPaths)>>
         ELSE <<>>)

\* Object.entries of a map with integer-like keys lists them in ascending order
Ascending(entries) ==
    LET n == Len(entries)
        from == SubSeq([k \in 1..n |->
                    CHOOSE i \in 1..n :
                        Cardinality({j \in 1..n : entries[j].key < entries[i].key}) = k - 1],
                    1, n)
    IN  [k \in 1..n |-> entries[from[k]]]

\* analyzeAccessLog(lines)
analyzeAccessLog(lines) ==
    LET records == Parsed(lines, parseAccessLogLine)
        statusCounts == Ascending(CountKeys(Field(records, "status")))
        methodCounts == CountKeys(Field(records, "method"))
        pathCounts == CountKeys(Field(records, "path"))
        withAgent == Pick(records, {i \in DOMAIN records : records[i].userAgent # <<>>})
        userAgentCounts == CountKeys(Field(withAgent, "userAgent"))
        ips == CountKeys(Field(records, "ip"))
        timed == Pick(records, {i \in DOMAIN records :
                        /\ records[i].responseTime # None
                        /\ records[i].responseTime[1] # 0})
        responseTimes == [k \in DOMAIN timed |-> timed[k].responseTime[1]]
        results ==
            [type |-> "access",
             totalRequests |-> Len(lines),
             statusCodes |-> statusCounts,
             methods |-> methodCounts,
             topPaths |-> TopTen(pathCounts, Len(lines)),
             topIPs |-> TopTen(ips, Len(lines)),
             botTraffic |-> Share(CountWhere(userAgentCounts, isBot), Len(lines)),
             responseTimes |-> responseTimes,
             responseTimeStats |->
                IF Len(responseTimes) > 0
                THEN Some([avg |-> average(responseTimes),
                           median |-> median(responseTimes),
                           p95 |-> percentile(responseTimes, 95),
                           p99 |-> percentile(responseTimes, 99),
                           max |-> Max(responseTimes)])
                ELSE None,
             statusBreakdown |-> categorizeStatusCodes(statusCounts, Len(lines))]
    IN  [type |-> results.type,
         totalRequests |-> results.totalRequests,
         statusCodes |-> results.statusCodes,
         methods |-> results.methods,
         topPaths |-> results.topPaths,
         topIPs |-> results.topIPs,
         botTraffic |-> results.botTraffic,
         responseTimes |-> results.responseTimes,
         responseTimeStats |-> results.responseTimeStats,
         statusBreakdown |-> results.statusBreakdown,
         recommendations |-> generateAccessLogRecommendations(results),
         securityIssues |-> detectSecurityIssues(results)]

\* generateErrorLogRecommendations(results)
generateErrorLogRecommendations(results) ==
    (IF results.totalErrors > 1000
     THEN <<Rec("high", "errors", "High error count")>>
     ELSE <<>>)
    \o
    (IF CountWhere(results.errorLevels, LAMBDA level : level = "crit") > 0
     THEN <<Rec("high", "critical", "Critical errors detected")>>
     ELSE <<>>)

\* parsed.message.substring(0, 100)
ErrorKey(message) == message[1]

\* analyzeErrorLog(lines)
analyzeErrorLog(lines) ==
    LET records == Parsed(lines, parseErrorLogLine)
        levelCounts == CountKeys(Field(records, "level"))
        errorMessages == CountKeys([i \in DOMAIN records |-> ErrorKey(records[i].message)])
        results ==
            [type |-> "error",
             totalErrors |-> Len(lines),
             errorLevels |-> levelCounts,
             topErrors |-> TopTen(errorMessages, Len(lines))]
    IN  [type |-> results.type,
         totalErrors |-> results.totalErrors,
         errorLevels |-> results.errorLevels,
         topErrors |-> results.topErrors,
         recommendations |-> generateErrorLogRecommendations(results)]

analyzeLogTypeElse(lines, type) ==
    IF type = "access" THEN Return(analyzeAccessLog(lines))
    ELSE Return(analyzeErrorLog(lines))

\* the branch on type at the end of LogAnalyzer.analyze
analyzeLogType(lines, type) ==
    IF type = "access" THEN Return(analyzeAccessLog(lines))
    ELSE IF type = "error" THEN Return(analyzeErrorLog(lines))
    ELSE Throw("Unknown log type")

\* LogAnalyzer.analyze(content, type = 'auto')
analyzeLog(content, type) ==
    IF type = "auto"
    THEN LET detected == detectLogType(content)
         IN  IF detected = None
             THEN Throw("Could not detect log type")
             ELSE analyzeLogType(NonBlank(content), detected[1])
    ELSE analyzeLogType(NonBlank(content), type)

(***************************************************************************)
(* Log blobs the analyzer is called with                                   *)
(***************************************************************************)
Rt(sec, milli) == Some([sec |-> sec, milli |-> milli])

Browser == <<"Mozilla", "5.0">>
Crawler == <<"Google", "bot", "/2.1">>
Curl == <<"curl", "7.68">>

Timeout == <<"upstream timed out", " while reading response header">>
TimeoutToo == <<"upstream timed out", " while connecting to upstream">>

SampleLines ==
    {AccessLine("10.0.0.1", "GET", <<"index.html">>, 200, Browser, Rt(0, 250)),
     AccessLine("10.0.0.1", "POST", <<"api", "?", "id=1">>, 500, Curl, None),
     AccessLine("10.0.0.2", "GET", <<"missing">>, 404, Crawler, Rt(1, 200)),
     AccessLine("10.0.0.3", "PROPFIND", <<"..", "etc", "passwd">>, 101, <<>>, Rt(0, 0)),
     ErrorLine("error", Timeout, TRUE),
     ErrorLine("crit", TimeoutToo, FALSE),
     TextLine(FALSE, FALSE),
     TextLine(TRUE, FALSE),
     TextLine(FALSE, TRUE),
     BlankLine}

Blobs(lines, n) == {<<>>} \cup SeqsUpTo(lines, n)

GoodLines ==
    <<AccessLine("10.0.0.1", "GET", <<"index.html">>, 200, Browser, Rt(0, 250)),
      AccessLine("10.0.0.2", "GET", <<"index.html">>, 200, Browser, None),
      AccessLine("10.0.0.3", "GET", <<"about">>, 301, Browser, None)>>

\* the blob of the documented example: 3 well-formed access lines, 2 garbage lines
DocumentedBlobs ==
    {<<GoodLines[1], TextLine(FALSE, FALSE), GoodLines[2], TextLine(FALSE, FALSE),
       GoodLines[3]>>}

\* access lines whose paths carry attack indicators: in the path itself, in
\* another letter case, in the query string only, or not at all
SecurityPaths ==
    {<<"index.html">>,
     <<"admin", "'", "or">>,
     <<"search", "UNION", "all">>,
     <<"..", "..", "etc", "passwd">>,
     <<"etc">>,
     <<"files", "..", ";">>,
     <<"api", "?", "id=1", "'">>}

PathLine(ip, path) == AccessLine(ip, "GET", path, 200, Browser, None)

SecurityBlobs ==
    Blobs({PathLine("10.0.0.1", p) : p \in SecurityPaths}, MaxSecurityLines)

\* logs with more distinct keys than a top list holds: the lines of base in
\* order, the line extra put in before the k-th of them, then (rounds = 2) all
\* of base once more or (rounds = 3) its even lines once more, then extra once
\* more (copies = 2)
Page(j) == <<"page", ToString(j)>>
Address(j) == "10.0.0." \o ToString(j)
Attack == <<"..", "etc", "passwd", "'">>

RankedBlob(base, extra, k, copies, rounds) ==
    SubSeq(base, 1, k - 1) \o <<extra>> \o SubSeq(base, k, Len(base))
    \o (CASE rounds = 1 -> <<>>
          [] rounds = 2 -> base
          [] rounds = 3 -> Pick(base, {j \in DOMAIN base : j % 2 = 0}))
    \o (IF copies = 2 THEN <<extra>> ELSE <<>>)

RankedBlobs(base, extra) ==
    {RankedBlob(base, extra, k, copies, rounds) :
        k \in 1..(Len(base) + 1), copies \in {1, 2}, rounds \in {1, 2, 3}}

RankedAccessBlobs ==
    RankedBlobs([j \in 1..MaxKeys |-> PathLine(Address(j), Page(j))],
                PathLine(Address(0), Attack))

RankedErrorBlobs ==
    RankedBlobs([j \in 1..MaxKeys |->
                    ErrorLine("error", <<"failure " \o ToString(j), "">>, FALSE)],
                ErrorLine("error", Timeout, FALSE))

LogBlobs ==
    Blobs(SampleLines, MaxLines) \cup DocumentedBlobs \cup SecurityBlobs
    \cup RankedAccessBlobs \cup RankedErrorBlobs

LogKinds == {"auto", "access", "error", "ACCESS", "Error", "wrk", ""}

LogCalls ==
    {[content |-> c, kind |-> k] : c \in LogBlobs, k \in {"auto", "access", "error"}}
    \cup {[content |-> c, kind |-> k] : c \in Blobs(SampleLines, 1), k \in LogKinds}

\* analyze with this.recommendations as the list the rules push to
AnalyzeLogShared(i, content, type) ==
    LET out == analyzeLog(content, type)
        list == analyzers.log[i].recommendations
                  \o (IF out.ok THEN out.result[1].recommendations ELSE <<>>)
    IN  /\ call = NoCall
        /\ call' = [analyzer |-> "log", inst |-> i, content |-> content, kind |-> type]
        /\ outcome' = IF out.ok
                       THEN Return([out.result[1] EXCEPT !.recommendations = list])
                       ELSE out
        /\ analyzers' = [analyzers EXCEPT !.log[i].recommendations = list]
        /\ UNCHANGED <<sample, stat, ref, cli, pipeline, builder, validator, manager>>

\* analyzer.analyze(content, type) on LogAnalyzer object i
AnalyzeLog(i, content, type) ==
    /\ call = NoCall
    /\ call' = [analyzer |-> "log", inst |-> i, content |-> content, kind |-> type]
    /\ outcome' = analyzeLog(content, type)
    /\ analyzers' = analyzers
    /\ UNCHANGED <<sample, stat, ref, cli, pipeline, builder, validator, manager>>

(***************************************************************************)
(* The analyzers as a state machine: any sequence of analyze calls         *)
(***************************************************************************)
Init ==
    /\ sample = <<>>
    /\ stat = NoStat
    /\ analyzers = NewAnalyzers
    /\ call = NoCall
    /\ outcome = NoOutcome
    /\ ref = NoRef
    /\ cli = NoCli
    /\ pipeline = NoPipeline
    /\ builder = NewBuilders
    /\ validator = NewValidator
    /\ manager = NoManager

\* The caller consumes what the call returned or threw (the CLI prints the report
\* or the error message); nothing of the call is kept.
Consume ==
    /\ call # NoCall
    /\ call' = NoCall
    /\ outcome' = NoOutcome
    /\ UNCHANGED <<sample, stat, analyzers, ref, cli, pipeline, builder, validator, manager>>

Next ==
    \/ /\ call = NoCall
       /\ \/ \E i \in Instances, c \in LogCalls : AnalyzeLog(i, c.content, c.kind)
          \/ \E i \in Instances, c \in BenchmarkCalls :
                AnalyzeBenchmark(i, c.content, c.kind)
    \/ Consume

Spec == Init /\ [][Next]_vars

(***************************************************************************)
(* Repeated calls: the caller keeps one earlier call and its outcome       *)
(***************************************************************************)
RepeatLines ==
    {AccessLine("10.0.0.1", "POST", <<"api", "?", "id=1">>, 500, Curl, Rt(1, 200)),
     ErrorLine("crit", Timeout, TRUE),
     TextLine(FALSE, FALSE)}

RepeatLogCalls ==
    {[content |-> c, kind |-> k] :
        c \in Blobs(RepeatLines, MaxRepeatLines), k \in {"auto", "access", "error"}}

RepeatBenchmarkCalls ==
    {[content |-> Blob(Banner(d), d, None, Some(Time(v, "ms")), None, None, None, None),
      kind |-> k] : d \in {"wrk", "ab"}, v \in {100, 1200}, k \in {"auto", "ab", "nginx"}}

\* The caller keeps the call and what it returned, and goes on
Remember ==
    /\ call # NoCall
    /\ ref' = [call |-> call, outcome |-> outcome]
    /\ call' = NoCall
    /\ outcome' = NoOutcome
    /\ UNCHANGED <<sample, stat, analyzers, cli, pipeline, builder, validator, manager>>

NextRepeat ==
    \/ /\ call = NoCall
       /\ \/ \E i \in Instances, c \in RepeatLogCalls : AnalyzeLog(i, c.content, c.kind)
          \/ \E i \in Instances, c \in RepeatBenchmarkCalls :
                AnalyzeBenchmark(i, c.content, c.kind)
    \/ Consume
    \/ Remember

SpecRepeat == Init /\ [][NextRepeat]_vars

(***************************************************************************)
(* The recommendation rules of an access log, applied to the summaries of  *)
(* logs too long to be written out line by line.  A summary is what        *)
(* analyzeAccessLog hands to generateAccessLogRecommendations for a log of *)
(* total well-formed lines: serverErrors of them with status 500, notFound *)
(* with status 404, the others with status 200; bots from one crawler's    *)
(* user agent; busiest from one client address and the others from a       *)
(* second one; every line timed with the same response time, or none.      *)
(***************************************************************************)
Entries(pairs) == Pick(pairs, {i \in DOMAIN pairs : pairs[i].count > 0})

AccessSummary(total, serverErrors, notFound, bots, busiest, time) ==
    LET statusCounts == Entries(<<[key |-> 200, count |-> total - serverErrors - notFound],
                                  [key |-> 404, count |-> notFound],
                                  [key |-> 500, count |-> serverErrors]>>)
        ips == Entries(<<[key |-> "10.0.0.1", count |-> busiest],
                         [key |-> "10.0.0.2", count |-> total - busiest]>>)
        userAgentCounts == Entries(<<[key |-> Crawler, count |-> bots],
                                     [key |-> Browser, count |-> total - bots]>>)
        responseTimes == IF time = None THEN <<>> ELSE <<time[1]>>
    IN  [type |-> "access",
         totalRequests |-> total,
         statusCodes |-> statusCounts,
         topIPs |-> TopTen(ips, total),
         botTraffic |-> Share(CountWhere(userAgentCounts, isBot), total),
         responseTimeStats |->
            IF Len(responseTimes) > 0
            THEN Some([avg |-> average(responseTimes),
                       median |-> median(responseTimes),
                       p95 |-> percentile(responseTimes, 95),
                       p99 |-> percentile(responseTimes, 99),
                       max |-> Max(responseTimes)])
            ELSE None,
         statusBreakdown |-> categorizeStatusCodes(statusCounts, total)]

\* line counts of a short and of a long log
SummaryTotals == {20, 25000}

\* the counts next to the count that is pct percent of total
CountsAround(total, pct) ==
    {0, (total * pct) \div 100, (total * pct) \div 100 + 1, (total * pct) \div 100 + 2}

\* response times (ms) next to the two p95 thresholds
SummaryTimes == {None, Some(500), Some(501), Some(1000), Some(1001)}

AccessSummaries ==
    UNION {{AccessSummary(total, serverErrors, notFound, bots, busiest, time) :
                serverErrors \in CountsAround(total, 5),
                notFound \in CountsAround(total, 10),
                bots \in CountsAround(total, 30),
                busiest \in CountsAround(total, 50),
                time \in SummaryTimes} : total \in SummaryTotals}

\* results.recommendations = this.generateAccessLogRecommendations(results)
RecommendAccessLog(i, results) ==
    /\ call = NoCall
    /\ call' = [analyzer |-> "rules", inst |-> i, content |-> results, kind |-> "access"]
    /\ outcome' = Return(generateAccessLogRecommendations(results))
    /\ UNCHANGED <<sample, stat, analyzers, ref, cli, pipeline, builder, validator, manager>>

NextRules ==
    \/ /\ call = NoCall
       /\ \E i \in Instances, results \in AccessSummaries : RecommendAccessLog(i, results)
    \/ Consume

SpecRules == Init /\ [][NextRules]_vars

(***************************************************************************)
(* The analyze-logs and analyze-benchmark commands (src/unnamed/part_010). *)
(* Each console.log is the list of lines it prints; a report is the list   *)
(* of the sections formatResults writes.  Reading a property of undefined  *)
(* throws a TypeError.                                                     *)
(***************************************************************************)
\* LogAnalyzer.formatResults(results)
formatLogResults(results) ==
    Return(<<"Log Analysis">>
           \o (IF results.type = "access"
               THEN <<"Total Requests", "Status Code Distribution">>
                    \o When(results.responseTimeStats # None, "Response Time Statistics")
                    \o When(Len(results.topPaths) > 0, "Top 10 Requested Paths")
                    \o <<"Bot Traffic">>
                    \o When(Len(results.securityIssues) > 0, "Security Issues")
               ELSE <<"Total Errors", "Error Levels">>
                    \o When(Len(results.topErrors) > 0, "Top Errors"))
           \o When(Len(results.recommendations) > 0, "Recommendations"))

\* BenchmarkAnalyzer.formatResults(results): results.metrics.latency.avg.toFixed(2)
\* and results.metrics.requestsPerSec.avg.toFixed(2) are evaluated whenever the
\* entry exists
formatBenchmarkResults(results) ==
    IF \/ results.metrics.latency # None /\ results.metrics.latency[1].avg = None
       \/ results.metrics.requestsPerSec # None /\ results.metrics.requestsPerSec[1].avg = None
    THEN Throw("TypeError")
    ELSE Return(<<"Benchmark Analysis">>
                \o When(results.metrics.latency # None, "Latency")
                \o When(results.metrics.requestsPerSec # None, "Throughput")
                \o When(results.summary # None, "Summary")
                \o <<"Performance Grade">>
                \o When(Len(results.recommendations) > 0, "Recommendations"))

\* the files named on the command line: None is a path that cannot be read
CliLogFiles ==
    Opt({<<>>,
         <<GoodLines[1], GoodLines[3]>>,
         <<ErrorLine("error", Timeout, TRUE)>>,
         <<TextLine(FALSE, FALSE)>>})

CliBenchmarkFiles ==
    Opt({Blob(Banner("wrk"), "wrk", None, Some(Time(1200, "ms")), Some(Num(99, "")),
              Some(Num(100, "")), Some(6), None),
         Blob({}, "text", None, None, None, None, None, None),
         Blob(Banner("k6"), "k6", None, Some(Time(100, "ms")), Some(Num(100, "")),
              None, None, None),
         Blob({}, "k6", Some([metrics |-> Some([http_req_duration |-> Some(100),
                                                http_reqs |-> Some(100)])]),
              None, None, None, None, None),
         Blob({}, "k6", Some([metrics |-> Some([http_req_duration |-> None,
                                                http_reqs |-> Some(100)])]),
              None, None, None, None, None)})

\* options.type / options.tool: None when the option is not given
CliLogTypes == Opt({"access", "error", "nginx"})
CliTools == Opt({"wrk", "k6", "nginx"})

\* options.x || 'auto'
OrAuto(option) == IF option = None \/ option = Some("") THEN "auto" ELSE option[1]

\* nginxconf-wizard analyze-logs <logfile> [-t type] [--error file]
RunAnalyzeLogs(logfile, type, errorFile) ==
    /\ cli.pc = "idle"
    /\ cli' = [cli EXCEPT !.command = "analyze-logs", !.pc = "read", !.stage = 1,
                          !.file = logfile, !.kind = OrAuto(type),
                          !.errorFile = errorFile,
                          !.stdout = <<<<"Analyzing nginx logs...">>>>]
    /\ UNCHANGED <<sample, stat, analyzers, call, outcome, ref, pipeline, builder, validator,
                   manager>>

\* nginxconf-wizard analyze-benchmark <results> [-t tool] [--apply]
RunAnalyzeBenchmark(results, tool, apply) ==
    /\ cli.pc = "idle"
    /\ cli' = [cli EXCEPT !.command = "analyze-benchmark", !.pc = "read", !.stage = 1,
                          !.file = results, !.kind = OrAuto(tool), !.apply = apply,
                          !.stdout = <<<<"Analyzing benchmark results...">>>>]
    /\ UNCHANGED <<sample, stat, analyzers, call, outcome, ref, pipeline, builder, validator,
                   manager>>

\* readFileSync(path, 'utf-8')
ReadFile ==
    /\ cli.pc = "read"
    /\ cli' = IF cli.file = None
              THEN [cli EXCEPT !.pc = "catch", !.thrown = @ \o <<"read">>]
              ELSE [cli EXCEPT !.pc = "analyze", !.text = cli.file]
    /\ UNCHANGED <<sample, stat, analyzers, call, outcome, ref, pipeline, builder, validator,
                   manager>>

\* const analyzer = new ...Analyzer(); analyzer.analyze(content, kind): the
\* --error log is analyzed on the LogAnalyzer created for the first log
Analyze ==
    /\ cli.pc = "analyze"
    /\ LET content == cli.text[1]
           out == IF cli.command = "analyze-logs" THEN analyzeLog(content, cli.kind)
                  ELSE analyzeBenchmark(content, cli.kind)
       IN  /\ call' = [analyzer |-> IF cli.command = "analyze-logs" THEN "log" ELSE "bench",
                       inst |-> 1, content |-> content, kind |-> cli.kind]
           /\ outcome' = out
           /\ cli' = IF out.ok THEN [cli EXCEPT !.pc = "report"]
                     ELSE [cli EXCEPT !.pc = "catch", !.thrown = @ \o <<"analyze">>]
    /\ analyzers' = analyzers
    /\ UNCHANGED <<sample, stat, ref, pipeline, builder, validator, manager>>

\* console.log(analyzer.formatResults(results)), then the --error log or the
\* --apply notice
Report ==
    /\ cli.pc = "report"
    /\ LET report == IF cli.command = "analyze-logs" THEN formatLogResults(outcome.result[1])
                     ELSE formatBenchmarkResults(outcome.result[1])
       IN  cli' = IF ~report.ok
                  THEN [cli EXCEPT !.pc = "catch", !.thrown = @ \o <<"format">>]
                  ELSE IF cli.command = "analyze-logs" /\ cli.stage = 1 /\ cli.errorFile # None
                  THEN [cli EXCEPT !.pc = "read", !.stage = 2, !.file = cli.errorFile[1],
                                   !.kind = "error",
                                   !.stdout = @ \o <<report.result[1], <<"Analyzing error log...">>>>]
                  ELSE [cli EXCEPT !.pc = "complete",
                                   !.stdout = @ \o <<report.result[1]>>
                                                \o When(cli.command = "analyze-benchmark"
                                                          /\ cli.apply,
                                                        <<"Auto-apply feature coming soon!">>)]
    /\ UNCHANGED <<sample, stat, analyzers, call, outcome, ref, pipeline, builder, validator,
                   manager>>

\* console.log('Analysis complete!'); the action returns and the process ends
Complete ==
    /\ cli.pc = "complete"
    /\ cli' = [cli EXCEPT !.pc = "exited", !.exit = Some(0),
                          !.stdout = @ \o <<<<"Analysis complete!">>>>]
    /\ UNCHANGED <<sample, stat, analyzers, call, outcome, ref, pipeline, builder, validator,
                   manager>>

\* catch (error) { console.error('Error:', error.message); process.exit(1); }
Catch ==
    /\ cli.pc = "catch"
    /\ cli' = [cli EXCEPT !.pc = "exited", !.exit = Some(1), !.stderr = @ \o <<"Error:">>]
    /\ UNCHANGED <<sample, stat, analyzers, call, outcome, ref, pipeline, builder, validator,
                   manager>>

NextCli ==
    \/ \E logfile \in CliLogFiles, type \in CliLogTypes, errorFile \in Opt(CliLogFiles) :
            RunAnalyzeLogs(logfile, type, errorFile)
    \/ \E results \in CliBenchmarkFiles, tool \in CliTools, apply \in BOOLEAN :
            RunAnalyzeBenchmark(results, tool, apply)
    \/ ReadFile
    \/ Analyze
    \/ Report
    \/ Complete
    \/ Catch

SpecCli == Init /\ [][NextCli]_vars

(***************************************************************************)
(* Order statistics, stated without sorting                                *)
(***************************************************************************)
(***************************************************************************)
(* analyzeAccessLog, statement by statement (part_009 lines 53-146)        *)
(***************************************************************************)
\* the results object after the statements up to line 140: every aggregate is
\* assigned, recommendations is still the [] of line 63 and securityIssues has
\* not been assigned
AggregateOf(lines) ==
    LET r == analyzeAccessLog(lines)
    IN  [f \in DOMAIN r |-> CASE f = "recommendations" -> <<>>
                              [] f = "securityIssues" -> None
                              [] OTHER -> r[f]]

PipelineIdle == UNCHANGED <<sample, stat, analyzers, call, outcome, ref, cli, builder,
                            validator, manager>>

\* analyzeAccessLog(lines) is entered and runs to line 140
EnterAccessLog(lines) ==
    /\ pipeline.pc = "idle"
    /\ pipeline' = [pc |-> "line 143", lines |-> lines,
                    results |-> Some(AggregateOf(lines)), given |-> None]
    /\ PipelineIdle

\* line 143: results.recommendations = this.generateAccessLogRecommendations(results)
RunRecommendationEngine ==
    /\ pipeline.pc = "line 143"
    /\ pipeline' = [pipeline EXCEPT
                        !.pc = "line 144",
                        !.given = Some(pipeline.results[1]),
                        !.results[1].recommendations =
                            generateAccessLogRecommendations(pipeline.results[1])]
    /\ PipelineIdle

\* line 144: results.securityIssues = this.detectSecurityIssues(results)
RunSecurityDetector ==
    /\ pipeline.pc = "line 144"
    /\ pipeline' = [pipeline EXCEPT
                        !.pc = "line 146",
                        !.results[1].securityIssues =
                            Some(detectSecurityIssues(pipeline.results[1]))]
    /\ PipelineIdle

\* line 146: return results
ReturnAccessLog ==
    /\ pipeline.pc = "line 146"
    /\ pipeline' = NoPipeline
    /\ PipelineIdle

NextPipeline ==
    \/ \E lines \in SecurityBlobs \cup DocumentedBlobs : EnterAccessLog(lines)
    \/ RunRecommendationEngine
    \/ RunSecurityDetector
    \/ ReturnAccessLog

SpecPipeline == Init /\ [][NextPipeline]_vars

(***************************************************************************)
(* ConfigBuilder (src/src/core/ConfigBuilder.js)                           *)
(***************************************************************************)
MaxDirectives == 1

\* const { key = default } = object
Default(object, key, default) == IF key \in DOMAIN object THEN object[key] ELSE default
\* object.key is truthy, for a key that holds a boolean
Flag(object, key) == key \in DOMAIN object /\ object[key]
\* object.key is truthy, for a key that holds a string
Filled(object, key) == key \in DOMAIN object /\ object[key] # ""
\* the keys of object that are among keys: a key holding undefined is left out
Defined(object, keys) == [k \in DOMAIN object \cap keys |-> object[k]]

validPatterns == {"static-only", "spa-with-api", "ssr-with-api", "combined-server",
                  "hybrid", "microservices"}

\* setPattern(pattern)
setPattern(b, pattern) ==
    IF pattern \notin validPatterns THEN Throw("Invalid pattern")
    ELSE Return([b EXCEPT !.config.pattern = pattern])

\* setDomain(domainConfig)
setDomain(b, domainConfig) ==
    IF ~Filled(domainConfig, "primary") THEN Throw("Primary domain is required")
    ELSE Return([b EXCEPT !.config.domain =
                    [primary |-> domainConfig.primary,
                     aliases |-> Default(domainConfig, "aliases", <<>>),
                     port |-> Default(domainConfig, "port", 80),
                     httpsPort |-> Default(domainConfig, "httpsPort", 443)]])

\* setSSL(sslConfig): certPath and keyPath have no default
setSSL(b, sslConfig) ==
    Return([b EXCEPT !.config.ssl =
                [enabled |-> Default(sslConfig, "enabled", FALSE),
                 provider |-> Default(sslConfig, "provider", "letsencrypt"),
                 http2 |-> Default(sslConfig, "http2", TRUE),
                 http3 |-> Default(sslConfig, "http3", FALSE)]
                @@ Defined(sslConfig, {"certPath", "keyPath"})])

\* setPerformance(perfConfig)
setPerformance(b, perfConfig) ==
    Return([b EXCEPT !.config.performance =
                [profile |-> Default(perfConfig, "profile", "balanced"),
                 workers |-> Default(perfConfig, "workers", "auto"),
                 connections |-> Default(perfConfig, "connections", 1024),
                 caching |-> Default(perfConfig, "caching", FALSE)]])

\* setSecurity(securityConfig)
setSecurity(b, securityConfig) ==
    Return([b EXCEPT !.config.security =
                [headers |-> Default(securityConfig, "headers", TRUE),
                 rateLimiting |-> Default(securityConfig, "rateLimiting", FALSE),
                 ddosProtection |-> Default(securityConfig, "ddosProtection", FALSE)]])

\* setFeatures(features): a copy of the flags
setFeatures(b, features) == Return([b EXCEPT !.config.features = features])

\* addCustomDirective(directive)
addCustomDirective(b, directive) ==
    Return([b EXCEPT !.config.customDirectives = Append(@, directive)])

\* validate() that reports HTTP/3 without HTTP/2 and leaves the flags alone
validateReportOnly(b) ==
    LET c == b.config
        errors ==
            When(c.pattern = "null", "Pattern is required")
            \o When(~Filled(c.domain, "primary"), "Primary domain is required")
            \o When(/\ Flag(c.ssl, "enabled")
                    /\ c.ssl.provider = "custom"
                    /\ (~Filled(c.ssl, "certPath") \/ ~Filled(c.ssl, "keyPath")),
                    "Custom SSL requires certPath and keyPath")
        warnings ==
            When(Flag(c.ssl, "enabled") /\ Flag(c.ssl, "http3") /\ ~Flag(c.ssl, "http2"),
                 "HTTP/3 requires HTTP/2 - enabling HTTP/2")
            \o When(/\ c.pattern \in {"spa-with-api", "ssr-with-api", "microservices"}
                    /\ ~Flag(c.features, "proxy"),
                    "Pattern " \o c.pattern \o " typically requires proxy configuration")
    IN  [builder |-> [b EXCEPT !.errors = errors, !.warnings = warnings],
         result |-> Return([valid |-> Len(errors) = 0, errors |-> errors,
                            warnings |-> warnings])]

\* validate(): the builder afterwards and the result returned
validate(b) ==
    LET c == b.config
        switch == Flag(c.ssl, "enabled") /\ Flag(c.ssl, "http3") /\ ~Flag(c.ssl, "http2")
        errors ==
            When(c.pattern = "null", "Pattern is required")
            \o When(~Filled(c.domain, "primary"), "Primary domain is required")
            \o When(/\ Flag(c.ssl, "enabled")
                    /\ c.ssl.provider = "custom"
                    /\ (~Filled(c.ssl, "certPath") \/ ~Filled(c.ssl, "keyPath")),
                    "Custom SSL requires certPath and keyPath")
        warnings ==
            When(switch, "HTTP/3 requires HTTP/2 - enabling HTTP/2")
            \o When(/\ c.pattern \in {"spa-with-api", "ssr-with-api", "microservices"}
                    /\ ~Flag(c.features, "proxy"),
                    "Pattern " \o c.pattern \o " typically requires proxy configuration")
    IN  [builder |-> [config |-> IF switch THEN [c EXCEPT !.ssl.http2 = TRUE] ELSE c,
                      errors |-> errors, warnings |-> warnings],
         result |-> Return([valid |-> Len(errors) = 0, errors |-> errors,
                            warnings |-> warnings])]

\* exportState(): the time stamps are left out, nothing reads them
exportState(b) == [version |-> "1.0.0", schemaVersion |-> "1.0.0"] @@ b.config

\* importState(state) done with the setters, which fill in their defaults
importStateBySetters(b, state) ==
    LET b1 == IF state.pattern \in validPatterns
              THEN [b EXCEPT !.config.pattern = state.pattern] ELSE b
        b2 == IF Filled(state.domain, "primary") THEN setDomain(b1, state.domain).result[1]
              ELSE b1
        b3 == setSSL(b2, state.ssl).result[1]
        b4 == setPerformance(b3, state.performance).result[1]
        b5 == setSecurity(b4, state.security).result[1]
        b6 == setFeatures(b5, state.features).result[1]
    IN  [b6 EXCEPT !.config.customDirectives = state.customDirectives]

\* importState(state): each of the seven keys is copied when its value is truthy;
\* an object or an array is truthy even when it is empty
importState(b, state) ==
    LET Take(key, truthy) ==
            IF key \in DOMAIN state /\ truthy THEN state[key] ELSE b.config[key]
    IN  [b EXCEPT !.config =
            [pattern |-> Take("pattern", state.pattern \notin {"null", ""}),
             domain |-> Take("domain", TRUE),
             ssl |-> Take("ssl", TRUE),
             performance |-> Take("performance", TRUE),
             security |-> Take("security", TRUE),
             features |-> Take("features", TRUE),
             customDirectives |-> Take("customDirectives", TRUE)]]

\* Arguments of the setters
PatternInputs == {"static-only", "spa-with-api", "microservices", "hybrid", "blog"}
DomainInputs ==
    {<<>>, [primary |-> ""], [primary |-> "example.com"],
     [primary |-> "example.com", aliases |-> <<"www.example.com">>, port |-> 8080]}
SslInputs ==
    {<<>>}
    \cup [enabled : BOOLEAN, http2 : BOOLEAN, http3 : BOOLEAN]
    \cup {[enabled |-> TRUE, provider |-> "custom"],
          [enabled |-> TRUE, provider |-> "custom", certPath |-> "/etc/ssl/site.crt"],
          [enabled |-> TRUE, provider |-> "custom", certPath |-> "/etc/ssl/site.crt",
           keyPath |-> "/etc/ssl/site.key", http2 |-> FALSE, http3 |-> TRUE]}
PerformanceInputs == {<<>>, [profile |-> "static-site", caching |-> TRUE]}
SecurityInputs == {<<>>, [rateLimiting |-> TRUE]}
FeatureInputs == {<<>>, [proxy |-> TRUE], [proxy |-> FALSE, compression |-> TRUE]}
DirectiveInputs == {"gzip on;", "server_tokens off;"}

BuilderIdle == UNCHANGED <<sample, stat, analyzers, call, outcome, ref, cli, pipeline,
                           validator, manager>>

\* A builder is configured by any sequence of setter calls, then validated
\* (any number of times) or exported and imported, then dropped for a new one.
Building == builder.op \in {"new", "set"}

\* a setter returned this, or threw and left the builder as it was
Set(out) ==
    /\ Building
    /\ builder' = [builder EXCEPT !.original = IF out.ok THEN out.result[1] ELSE @,
                                  !.op = "set",
                                  !.result = IF out.ok THEN None ELSE Some(out)]
    /\ BuilderIdle

SetPattern(pattern) == Set(setPattern(builder.original, pattern))
SetDomain(domainConfig) == Set(setDomain(builder.original, domainConfig))
SetSSL(sslConfig) == Set(setSSL(builder.original, sslConfig))
SetPerformance(perfConfig) == Set(setPerformance(builder.original, perfConfig))
SetSecurity(securityConfig) == Set(setSecurity(builder.original, securityConfig))
SetFeatures(features) == Set(setFeatures(builder.original, features))
AddCustomDirective(directive) ==
    /\ Len(builder.original.config.customDirectives) < MaxDirectives
    /\ Set(addCustomDirective(builder.original, directive))

Validate ==
    /\ builder.op # "importState"
    /\ LET v == validate(builder.original)
       IN  builder' = [builder EXCEPT !.original = v.builder, !.op = "validate",
                                      !.result = Some(v.result)]
    /\ BuilderIdle

\* new ConfigBuilder().importState(original.exportState())
ImportExportedState ==
    /\ builder.op # "importState"
    /\ builder' = [builder EXCEPT
                      !.copy = Some(importState(NewConfigBuilder,
                                                exportState(builder.original))),
                      !.op = "importState",
                      !.result = None]
    /\ BuilderIdle

\* both builders are dropped and a new ConfigBuilder() is made
DropBuilders ==
    /\ builder.op \in {"validate", "importState"}
    /\ builder' = NewBuilders
    /\ BuilderIdle

NextBuilder ==
    \/ \E pattern \in PatternInputs : SetPattern(pattern)
    \/ \E domainConfig \in DomainInputs : SetDomain(domainConfig)
    \/ \E sslConfig \in SslInputs : SetSSL(sslConfig)
    \/ \E perfConfig \in PerformanceInputs : SetPerformance(perfConfig)
    \/ \E securityConfig \in SecurityInputs : SetSecurity(securityConfig)
    \/ \E features \in FeatureInputs : SetFeatures(features)
    \/ \E directive \in DirectiveInputs : AddCustomDirective(directive)
    \/ Validate
    \/ ImportExportedState
    \/ DropBuilders

SpecBuilder == Init /\ [][NextBuilder]_vars

(***************************************************************************)
(* UpdateManager (src/src/core/UpdateManager.js) and the update command    *)
(***************************************************************************)
\* object[key] = value
Put(object, key, value) ==
    [k \in DOMAIN object \cup {key} |-> IF k = key THEN value ELSE object[k]]
\* object[key] || {}
Sub(object, key) == IF key \in DOMAIN object THEN object[key] ELSE <<>>

\* const config = this.state.config || {}
ConfigOf(state) == Sub(state, "config")

\* addSecurityUpdates(): the titles of the updates it pushes
addSecurityUpdates(state) ==
    LET config == ConfigOf(state)
        ssl == Sub(config, "ssl")
        checked == "ssl" \in DOMAIN config /\ Default(ssl, "provider", "") # "none"
        protocols == Range(Default(ssl, "protocols", <<>>))
        pattern == Default(config, "pattern", "null")
    IN  When(checked /\ ("TLSv1" \in protocols \/ "TLSv1.1" \in protocols),
             "Outdated TLS versions detected")
        \o When(checked /\ Default(ssl, "cipherSuite", "") \in {"", "old"},
                "Weak cipher suite detected")
        \o When(~Flag(Sub(config, "features"), "securityHeaders"),
                "Security headers not enabled")
        \o When(/\ pattern \in {"spa-with-api", "ssr-with-api", "microservices"}
                /\ ~Flag(Sub(config, "security"), "rateLimiting"),
                "Rate limiting not enabled for API")

\* addPerformanceUpdates()
addPerformanceUpdates(state) ==
    LET config == ConfigOf(state)
        ssl == Sub(config, "ssl")
        features == Sub(config, "features")
    IN  When(Flag(ssl, "http2") /\ ~Flag(ssl, "http3"), "HTTP/3 (QUIC) available")
        \o When(~Flag(features, "compression"), "Gzip compression not enabled")
        \o When(~Flag(features, "browserCaching"), "Browser caching not optimized")
        \o When(/\ Default(config, "performanceProfile", "") = "balanced"
                /\ Default(config, "pattern", "null") = "static-only",
                "Suboptimal performance profile")

\* addFeatureUpdates()
addFeatureUpdates(state) ==
    LET config == ConfigOf(state)
    IN  When(~Filled(Sub(config, "security"), "ddosProtection"),
             "DDoS protection available")
        \o When(/\ Default(config, "pattern", "null") \in {"spa-with-api", "ssr-with-api"}
                /\ ~Flag(Sub(config, "features"), "cors"),
                "CORS configuration available")

\* checkForUpdates(): this.updates
checkForUpdates(state) ==
    addSecurityUpdates(state) \o addPerformanceUpdates(state) \o addFeatureUpdates(state)

\* update.action() of the update with this title, on this.state.  Every action
\* reads a property of this.state.config, a TypeError when the state has no
\* config key.
action(title, state) ==
    IF "config" \notin DOMAIN state THEN Throw("TypeError")
    ELSE LET config == state.config
             In(key, flag, value) == Put(config, key, Put(Sub(config, key), flag, value))
         IN  Return(Put(state, "config",
                CASE title = "Outdated TLS versions detected" ->
                        In("ssl", "protocols",
                           SelectSeq(config.ssl.protocols,
                                     LAMBDA p : p \notin {"TLSv1", "TLSv1.1"}))
                  [] title = "Weak cipher suite detected" -> In("ssl", "cipherSuite", "modern")
                  [] title = "Security headers not enabled" ->
                        In("features", "securityHeaders", TRUE)
                  [] title = "Rate limiting not enabled for API" ->
                        In("security", "rateLimiting", TRUE)
                  [] title = "HTTP/3 (QUIC) available" -> In("ssl", "http3", TRUE)
                  [] title = "Gzip compression not enabled" ->
                        In("features", "compression", TRUE)
                  [] title = "Browser caching not optimized" ->
                        In("features", "browserCaching", TRUE)
                  [] title = "Suboptimal performance profile" ->
                        Put(config, "performanceProfile", "static-site")
                  [] title = "DDoS protection available" ->
                        In("security", "ddosProtection", "balanced")
                  [] title = "CORS configuration available" -> In("features", "cors", TRUE)))

\* saveState(): what is written to the file
saveState(state) == Put(state, "updatedAt", "saved")

\* State files written by the wizard: JSON.stringify(this.config.exportState())
\* of a builder the wizard has configured (Wizard.js lines 400-401)
WizardStates ==
    {exportState(setFeatures(setSecurity(setSSL(setDomain(setPattern(NewConfigBuilder,
            pattern).result[1], [primary |-> "example.com"]).result[1],
            sslConfig).result[1], securityConfig).result[1], features).result[1]) :
        pattern \in PatternInputs \cap validPatterns,
        sslConfig \in SslInputs,
        securityConfig \in SecurityInputs,
        features \in FeatureInputs \cup {[securityHeaders |-> TRUE, compression |-> TRUE,
                                          browserCaching |-> TRUE]}}

\* State files that keep the configuration under the key config
NestedStates ==
    {[version |-> "1.0.0", config |-> pattern @@ ssl @@ features @@ security @@ profile] :
        pattern \in {[pattern |-> "static-only"], [pattern |-> "spa-with-api"]},
        ssl \in {<<>>,
                 [ssl |-> <<>>],
                 [ssl |-> [provider |-> "none", http2 |-> TRUE, http3 |-> FALSE]],
                 [ssl |-> [provider |-> "letsencrypt", http2 |-> TRUE, http3 |-> FALSE,
                           protocols |-> <<"TLSv1", "TLSv1.1", "TLSv1.2", "TLSv1.3">>,
                           cipherSuite |-> "old"]],
                 [ssl |-> [provider |-> "letsencrypt", http2 |-> TRUE, http3 |-> TRUE,
                           protocols |-> <<"TLSv1.2", "TLSv1.3">>,
                           cipherSuite |-> "modern"]]},
        features \in {<<>>,
                      [features |-> [compression |-> TRUE]],
                      [features |-> [securityHeaders |-> TRUE, compression |-> TRUE,
                                     browserCaching |-> TRUE, cors |-> TRUE]]},
        security \in {<<>>,
                      [security |-> [rateLimiting |-> TRUE, ddosProtection |-> "balanced"]]},
        profile \in {<<>>, [performanceProfile |-> "balanced"]}}

ManagerIdle == UNCHANGED <<sample, stat, analyzers, call, outcome, ref, cli, pipeline,
                           builder, validator>>

\* nginxconf-wizard update --state <file> --auto-apply: new UpdateManager(file),
\* then applyUpdates(true)
RunUpdate(file) ==
    /\ manager.pc = "idle"
    /\ manager' = [NoManager EXCEPT !.pc = "check", !.disk = file, !.before = file]
    /\ ManagerIdle

\* applyUpdates line 316: checkForUpdates(), which loads the state file first;
\* lines 318-321: nothing to apply
CheckForUpdates ==
    /\ manager.pc = "check"
    /\ manager' =
            IF manager.disk = None
            THEN [manager EXCEPT !.pc = "failed", !.thrown = Some("State file not found")]
            ELSE LET updates == checkForUpdates(manager.disk[1])
                 IN  [manager EXCEPT !.state = manager.disk,
                                     !.updates = updates,
                                     !.pc = IF updates = <<>> THEN "done" ELSE "apply"]
    /\ ManagerIdle

\* line 356: the action of the next update
ApplyUpdate ==
    /\ manager.pc = "apply"
    /\ Len(manager.applied) < Len(manager.updates)
    /\ LET title == manager.updates[Len(manager.applied) + 1]
           out == action(title, manager.state[1])
       IN  manager' =
                IF out.ok
                THEN [manager EXCEPT !.state = out.result, !.applied = Append(@, title)]
                ELSE [manager EXCEPT !.pc = "failed", !.thrown = Some(out.error)]
    /\ ManagerIdle

\* line 361: this.saveState()
SaveState ==
    /\ manager.pc = "apply"
    /\ Len(manager.applied) = Len(manager.updates)
    /\ manager' = [manager EXCEPT !.pc = "done", !.saved = TRUE,
                                  !.disk = Some(saveState(manager.state[1]))]
    /\ ManagerIdle

\* the command has returned, or the CLI has caught the error and exited with 1
ExitUpdate ==
    /\ manager.pc \in {"done", "failed"}
    /\ manager' = NoManager
    /\ ManagerIdle

NextUpdate ==
    \/ \E state \in WizardStates : RunUpdate(Some(state))
    \/ \E state \in NestedStates : RunUpdate(Some(state))
    \/ RunUpdate(None)
    \/ CheckForUpdates
    \/ ApplyUpdate
    \/ SaveState
    \/ ExitUpdate

SpecUpdate == Init /\ [][NextUpdate]_vars

(***************************************************************************)
(* Validator (src/src/core/Validator.js)                                   *)
(***************************************************************************)
MaxMessages == 2

\* validator.isFQDN(domain), on the domains the model passes
isFQDN(domain) == domain \in {"example.com", "www.example.com"}

\* the lists of a Validator after a method pushed these messages, and what the
\* method returned
Pushed(v, errors, warnings, value) ==
    [v |-> [v EXCEPT !.errors = @ \o errors, !.warnings = @ \o warnings], value |-> value]

\* validateDomain(domain)
validateDomain(v, domain) ==
    IF domain = "" THEN Pushed(v, <<"Domain must be a non-empty string">>, <<>>, FALSE)
    ELSE IF domain \in {"localhost", "127.0.0.1"} THEN Pushed(v, <<>>, <<>>, TRUE)
    ELSE IF ~isFQDN(domain)
    THEN Pushed(v, <<"Invalid domain name: " \o domain>>, <<>>, FALSE)
    ELSE Pushed(v, <<>>, <<>>, TRUE)

\* validatePort(port), port an integer
validatePort(v, port) ==
    IF port < 1 \/ port > 65535
    THEN Pushed(v, <<"Invalid port: " \o ToString(port)>>, <<>>, FALSE)
    ELSE Pushed(v, <<>>,
                When(port < 1024 /\ port # 80 /\ port # 443,
                     "Port " \o ToString(port) \o " is privileged"),
                TRUE)

\* validatePath(filePath): the path is its text, whether it starts with '/'
\* and whether it includes '..'
validatePath(v, filePath) ==
    IF filePath.text = "" THEN Pushed(v, <<"Path must be a non-empty string">>, <<>>, FALSE)
    ELSE LET relative == When(~filePath.absolute, "Path " \o filePath.text \o " is relative")
         IN  IF filePath.dots
             THEN Pushed(v, <<"Path " \o filePath.text \o " contains directory traversal">>,
                         relative, FALSE)
             ELSE Pushed(v, <<>>, relative, TRUE)

\* validateSSL(sslConfig): the Joi schema, on objects whose keys are the six of
\* the schema and whose flags are booleans
validateSSL(v, sslConfig) ==
    IF \/ "enabled" \notin DOMAIN sslConfig
       \/ Default(sslConfig, "provider", "letsencrypt")
                \notin {"letsencrypt", "cloudflare", "custom", "self-signed"}
       \/ /\ Default(sslConfig, "provider", "") = "custom"
          /\ (~Filled(sslConfig, "certPath") \/ ~Filled(sslConfig, "keyPath"))
    THEN Pushed(v, <<"Invalid SSL configuration">>, <<>>, FALSE)
    ELSE Pushed(v, <<>>,
                When(Flag(sslConfig, "http3") /\ ~Flag(sslConfig, "http2"),
                     "HTTP/3 requires HTTP/2. HTTP/2 will be enabled automatically"),
                TRUE)

\* the validate* calls of validateConfig, lines 226-255, on the lists as they are
validateConfigKeeping(v, config) ==
    LET domain == Sub(config, "domain")
        v1 == Pushed(v, When(Default(config, "pattern", "undefined") \notin validPatterns,
                             "Invalid pattern: " \o Default(config, "pattern", "undefined")),
                     <<>>, TRUE).v
        v2 == IF Filled(domain, "primary") THEN validateDomain(v1, domain.primary).v
              ELSE Pushed(v1, <<"Primary domain is required">>, <<>>, FALSE).v
        aliases == Default(domain, "aliases", <<>>)
        each[k \in 0..Len(aliases)] ==
            IF k = 0 THEN v2 ELSE validateDomain(each[k - 1], aliases[k]).v
        v3 == each[Len(aliases)]
        v4 == IF Default(domain, "port", 0) # 0 THEN validatePort(v3, domain.port).v ELSE v3
        v5 == IF Default(domain, "httpsPort", 0) # 0
              THEN validatePort(v4, domain.httpsPort).v ELSE v4
        v6 == IF Flag(Sub(config, "ssl"), "enabled") THEN validateSSL(v5, config.ssl).v
              ELSE v5
    IN  [v |-> v6,
         value |-> [valid |-> Len(v6.errors) = 0, errors |-> v6.errors,
                    warnings |-> v6.warnings]]

\* validateConfig(config): lines 213-214 empty both lists first
validateConfig(v, config) ==
    validateConfigKeeping([v EXCEPT !.errors = <<>>, !.warnings = <<>>], config)

\* Arguments of the calls
DomainNames == {"", "localhost", "example.com", "invalid..domain"}
Ports == {0, 22, 80, 8080, 70000}
Paths == {[text |-> "", absolute |-> FALSE, dots |-> FALSE],
          [text |-> "/var/www", absolute |-> TRUE, dots |-> FALSE],
          [text |-> "www/site", absolute |-> FALSE, dots |-> FALSE],
          [text |-> "../etc", absolute |-> FALSE, dots |-> TRUE]}
ValidatorConfigs ==
    {pattern @@ domain @@ ssl :
        pattern \in {<<>>, [pattern |-> "static-only"], [pattern |-> "blog"]},
        domain \in {<<>>,
                    [domain |-> [primary |-> "example.com"]],
                    [domain |-> [primary |-> "example.com",
                                 aliases |-> <<"www.example.com">>,
                                 port |-> 80, httpsPort |-> 443]],
                    [domain |-> [primary |-> "invalid..domain",
                                 aliases |-> <<"www.example.com", "">>,
                                 port |-> 22, httpsPort |-> 70000]]},
        ssl \in {<<>>} \cup {[ssl |-> s] : s \in SslInputs \ {<<>>}}}

ValidatorIdle == UNCHANGED <<sample, stat, analyzers, call, outcome, ref, cli, pipeline,
                            builder, manager>>

Held == Len(validator.errors) + Len(validator.warnings)

\* one of validateDomain, validatePort, validatePath, validateSSL has run
Called(op, out) ==
    /\ validator' = [errors |-> out.v.errors, warnings |-> out.v.warnings, op |-> op,
                     arg |-> None, returned |-> Some(out.value), result |-> None,
                     held |-> Held]
    /\ ValidatorIdle

\* the lists grow until clear() or validateConfig empties them
Room == Held < MaxMessages
Lists == [errors |-> validator.errors, warnings |-> validator.warnings]

ValidateDomain(domain) == Room /\ Called("validateDomain", validateDomain(Lists, domain))
ValidatePort(port) == Room /\ Called("validatePort", validatePort(Lists, port))
ValidatePath(filePath) == Room /\ Called("validatePath", validatePath(Lists, filePath))
ValidateSSL(sslConfig) == Room /\ Called("validateSSL", validateSSL(Lists, sslConfig))

ValidateConfig(config) ==
    /\ LET out == validateConfig(Lists, config)
       IN  validator' = [errors |-> out.v.errors, warnings |-> out.v.warnings,
                         op |-> "validateConfig", arg |-> Some(config),
                         returned |-> None, result |-> Some(out.value), held |-> Held]
    /\ ValidatorIdle

\* getErrors() and getWarnings(): copies of the lists
GetMessages ==
    /\ validator.op # "getErrors"
    /\ validator' = [validator EXCEPT
                        !.op = "getErrors", !.arg = None, !.held = Held,
                        !.returned = None,
                        !.result = Some([valid |-> Len(validator.errors) = 0,
                                         errors |-> validator.errors,
                                         warnings |-> validator.warnings])]
    /\ ValidatorIdle

\* clear()
Clear ==
    /\ validator.op # "clear"
    /\ validator' = [validator EXCEPT !.errors = <<>>, !.warnings = <<>>, !.op = "clear",
                                      !.arg = None, !.returned = None, !.result = None,
                                      !.held = Held]
    /\ ValidatorIdle

NextValidator ==
    \/ \E domain \in DomainNames : ValidateDomain(domain)
    \/ \E port \in Ports : ValidatePort(port)
    \/ \E filePath \in Paths : ValidatePath(filePath)
    \/ \E sslConfig \in SslInputs \ {<<>>} : ValidateSSL(sslConfig)
    \/ \E config \in ValidatorConfigs : ValidateConfig(config)
    \/ GetMessages
    \/ Clear

SpecValidator == Init /\ [][NextValidator]_vars

(***************************************************************************)
(* SmartConfigManager (src/src/core/SmartConfigManager.js)                 *)
(***************************************************************************)
\* detectProfile with the pattern checks tried before the CDN check
detectProfilePatternFirst(config) ==
    IF Default(config, "pattern", "") \in {"microservices", "spa-with-api"}
    THEN "api-gateway"
    ELSE IF Default(Sub(config, "ssl"), "provider", "") = "cloudflare" THEN "cdn-origin"
    ELSE IF /\ Default(config, "pattern", "") = "static-only"
            /\ ~Flag(Sub(config, "features"), "proxy")
    THEN "static-site"
    ELSE "balanced"

\* detectProfile(config)
detectProfile(config) ==
    IF Default(Sub(config, "ssl"), "provider", "") = "cloudflare" THEN "cdn-origin"
    ELSE IF Default(config, "pattern", "") \in {"microservices", "spa-with-api"}
    THEN "api-gateway"
    ELSE IF /\ Default(config, "pattern", "") = "static-only"
            /\ ~Flag(Sub(config, "features"), "proxy")
    THEN "static-site"
    ELSE "balanced"

\* getRecommendations(config): the type and impact of each recommendation
getRecommendations(config) ==
    LET performance == Sub(config, "performance")
        pattern == Default(config, "pattern", "")
        Advice(type, impact) == [type |-> type, impact |-> impact]
    IN  When(Default(performance, "profile", "") # detectProfile(config),
             Advice("profile", "medium"))
        \o When(/\ pattern = "microservices"
                /\ "connections" \in DOMAIN performance
                /\ performance.connections < 2048,
                Advice("workers", "high"))
        \o When(/\ pattern = "static-only"
                /\ ~Flag(Sub(performance, "openFileCache"), "enabled"),
                Advice("cache", "high"))
        \o When(/\ Default(performance, "profile", "") = "cdn-origin"
                /\ Flag(Sub(config, "features"), "compression"),
                Advice("compression", "medium"))

\* Configurations handed to the manager
ProfileConfigs ==
    {pattern @@ ssl @@ features @@ performance :
        pattern \in {<<>>} \cup {[pattern |-> p] : p \in {"static-only", "spa-with-api",
                                                         "microservices", "combined-server"}},
        ssl \in {<<>>, [ssl |-> [provider |-> "cloudflare"]],
                 [ssl |-> [provider |-> "letsencrypt"]]},
        features \in {<<>>, [features |-> <<>>], [features |-> [proxy |-> TRUE]],
                      [features |-> [compression |-> TRUE]],
                      [features |-> [proxy |-> TRUE, compression |-> TRUE]]},
        performance \in
            {<<>>} \cup
            {[performance |-> [profile |-> p] @@ connections @@ cache] :
                p \in {"balanced", "cdn-origin", "api-gateway", "static-site"},
                connections \in {<<>>, [connections |-> 1024], [connections |-> 2048]},
                cache \in {<<>>, [openFileCache |-> [enabled |-> TRUE]]}}}

\* manager.detectProfile(config) and manager.getRecommendations(config) on a
\* SmartConfigManager: neither reads or writes a field of the manager
DetectProfile(config) ==
    /\ call' = [analyzer |-> "smart", inst |-> 0, content |-> config,
                kind |-> "detectProfile"]
    /\ outcome' = Return([profile |-> detectProfile(config)])
    /\ UNCHANGED <<sample, stat, analyzers, ref, cli, pipeline, builder, validator, manager>>

GetRecommendations(config) ==
    /\ call' = [analyzer |-> "smart", inst |-> 0, content |-> config,
                kind |-> "getRecommendations"]
    /\ outcome' = Return([recommendations |-> getRecommendations(config)])
    /\ UNCHANGED <<sample, stat, analyzers, ref, cli, pipeline, builder, validator, manager>>

NextProfile ==
    \/ /\ call = NoCall
       /\ \/ \E config \in ProfileConfigs : DetectProfile(config)
          \/ \E config \in ProfileConfigs : GetRecommendations(config)
    \/ Consume

SpecProfile == Init /\ [][NextProfile]_vars

(***************************************************************************)
(* Response times as JavaScript numbers                                    *)
(*                                                                         *)
(* LogAnalyzer keeps response times as IEEE-754 doubles: parseAccessLogLine*)
(* computes parseFloat(rt) * 1000 and average / median divide a sum.  A    *)
(* double is modelled exactly, as bits * 2^(-scale) with at most Precision *)
(* significant bits; bits is a binary numeral, least significant bit first,*)
(* ending in 1 (<<>> is zero).  parseFloat and every arithmetic operation  *)
(* round to nearest, ties to even.                                         *)
(***************************************************************************)
Precision == 53

\* the arithmetic on numerals goes limb by limb, a limb being LimbBits bits
LimbBits == 5 * 3

LimbBase == 2 ^ LimbBits

RECURSIVE Bits(_)
Bits(n) == IF n = 0 THEN <<>> ELSE <<n % 2>> \o Bits(n \div 2)

RECURSIVE Value(_)
Value(bits) == IF bits = <<>> THEN 0 ELSE bits[1] + 2 * Value(Tail(bits))

Zeros(n) == [i \in 1..n |-> 0]

\* a without its high zero bits
Trim(a) ==
    LET ones == {i \in DOMAIN a : a[i] = 1}
    IN  IF ones = {} THEN <<>>
        ELSE SubSeq(a, 1, CHOOSE i \in ones : \A j \in ones : j <= i)

ToLimbs(bits) ==
    LET n == Len(bits)
    IN  [k \in 1..Ceil(n, LimbBits) |->
            Value(SubSeq(bits, LimbBits * (k - 1) + 1,
                         IF LimbBits * k < n THEN LimbBits * k ELSE n))]

FromLimbs(limbs) ==
    Trim([i \in 1..(LimbBits * Len(limbs)) |->
            (limbs[((i - 1) \div LimbBits) + 1] \div (2 ^ ((i - 1) % LimbBits))) % 2])

RECURSIVE LAdd(_, _, _)
LAdd(a, b, c) ==
    IF a = <<>> /\ b = <<>> THEN (IF c = 0 THEN <<>> ELSE <<c>>)
    ELSE LET x == IF a = <<>> THEN 0 ELSE a[1]
             y == IF b = <<>> THEN 0 ELSE b[1]
             s == x + y + c
         IN  <<s % LimbBase>> \o LAdd(IF a = <<>> THEN a ELSE Tail(a),
                                      IF b = <<>> THEN b ELSE Tail(b), s \div LimbBase)

RECURSIVE LMul(_, _, _)
LMul(a, d, c) ==
    IF a = <<>> THEN (IF c = 0 THEN <<>> ELSE <<c>>)
    ELSE LET s == a[1] * d + c
         IN  <<s % LimbBase>> \o LMul(Tail(a), d, s \div LimbBase)

RECURSIVE LDiv(_, _)
LDiv(a, d) ==
    IF a = <<>> THEN [q |-> <<>>, r |-> 0]
    ELSE LET high == LDiv(Tail(a), d)
             t == LimbBase * high.r + a[1]
         IN  [q |-> <<t \div d>> \o high.q, r |-> t % d]

\* a + b
BAdd(a, b) == FromLimbs(LAdd(ToLimbs(a), ToLimbs(b), 0))

\* a * d for a natural d below LimbBase
BMul(a, d) == FromLimbs(LMul(ToLimbs(a), d, 0))

\* quotient and remainder of a by d, 0 < d < LimbBase
BDiv(a, d) ==
    LET result == LDiv(ToLimbs(a), d)
    IN  [q |-> FromLimbs(result.q), r |-> result.r]

BLess(a, b) ==
    \/ Len(a) < Len(b)
    \/ /\ Len(a) = Len(b)
       /\ \E i \in DOMAIN a :
            /\ a[i] < b[i]
            /\ \A j \in DOMAIN a : j > i => a[j] = b[j]

\* the canonical form: no low zero bits
Canon(x) ==
    LET ones == {i \in DOMAIN x.bits : x.bits[i] = 1}
        low == CHOOSE i \in ones : \A j \in ones : i <= j
    IN  IF ones = {} THEN [bits |-> <<>>, scale |-> 0]
        ELSE [bits |-> SubSeq(x.bits, low, Len(x.bits)), scale |-> x.scale - (low - 1)]

\* round bits (with more of the value below it when sticky) to Precision
\* significant bits, to nearest, ties to even
RoundBits(bits, sticky) ==
    LET n == Len(bits)
        drop == n - Precision
        kept == SubSeq(bits, drop + 1, n)
        rest == sticky \/ \E i \in 1..(drop - 1) : bits[i] = 1
        up == bits[drop] = 1 /\ (rest \/ kept[1] = 1)
    IN  IF drop <= 0 THEN bits
        ELSE Zeros(drop) \o (IF up THEN BAdd(kept, <<1>>) ELSE kept)

Double(n) == Canon([bits |-> Bits(n), scale |-> 0])

\* x on the grid of 2^(-scale), scale >= x.scale
OnScale(x, scale) == IF x.bits = <<>> THEN <<>> ELSE Zeros(scale - x.scale) \o x.bits

Finer(x, y) == IF x.scale >= y.scale THEN x.scale ELSE y.scale

\* x < y, x <= y
Less(x, y) == BLess(OnScale(x, Finer(x, y)), OnScale(y, Finer(x, y)))

AtMost(x, y) == ~Less(y, x)

\* x + y
Plus(x, y) ==
    LET scale == Finer(x, y)
    IN  Canon([bits |-> RoundBits(BAdd(OnScale(x, scale), OnScale(y, scale)), FALSE),
               scale |-> scale])

\* x * d for a natural d
Times(x, d) == Canon([bits |-> RoundBits(BMul(x.bits, d), FALSE), scale |-> x.scale])

\* x / d for a natural d, 0 < d < LimbBase: the quotient is taken with enough
\* bits below the last significant one to decide the rounding
Over(x, d) ==
    LET more == Precision + Len(Bits(d)) + 2
        quotient == BDiv(Zeros(more) \o x.bits, d)
    IN  IF x.bits = <<>> THEN x
        ELSE Canon([bits |-> RoundBits(quotient.q, quotient.r # 0),
                    scale |-> x.scale + more])

\* parseFloat(rtMatch[1]) * 1000, for a text that gives the seconds with three
\* decimals: rt stands for the text's value in thousandths ("2.007" is 2007)
responseTimeOf(rt) == Times(Over(Double(rt), 1000), 1000)

\* the response-time texts of the sampled log lines
RtTexts == {100, 1200, 2007}

MaxTimed == 5

Millis == [rt \in RtTexts |-> responseTimeOf(rt)]

\* arr.reduce((a, b) => a + b, 0)
RECURSIVE SumDoubles(_, _)
SumDoubles(arr, a) ==
    IF arr = <<>> THEN a ELSE SumDoubles(Tail(arr), Plus(a, arr[1]))

\* average(arr) on doubles
averageDouble(arr) == Over(SumDoubles(arr, Double(0)), Len(arr))

\* [...arr].sort((a, b) => a - b) on doubles
SortDoubles(arr) ==
    LET n == Len(arr)
        pos == SubSeq([i \in 1..n |->
                  1 + Cardinality({j \in 1..n :
                                     Less(arr[j], arr[i]) \/ (arr[j] = arr[i] /\ j < i)})], 1, n)
        from == SubSeq([k \in 1..n |-> CHOOSE i \in 1..n : pos[i] = k], 1, n)
    IN  [k \in 1..n |-> arr[from[k]]]

\* median(arr) on doubles
medianDouble(arr) ==
    LET sorted == SortDoubles(arr)
        mid == Len(sorted) \div 2
    IN  IF Len(sorted) % 2 = 0
        THEN Over(Plus(sorted[mid], sorted[mid + 1]), 2)
        ELSE sorted[mid + 1]

\* percentile(arr, p) on doubles
percentileDouble(arr, p) == SortDoubles(arr)[percentileIndex(Len(arr), p) + 1]

\* Math.max(...arr) on doubles
maxDouble(arr) == CHOOSE v \in Range(arr) : \A w \in Range(arr) : AtMost(w, v)

\* results.responseTimeStats of analyzeAccessLog
responseTimeStats(responseTimes) ==
    [avg |-> averageDouble(responseTimes),
     median |-> medianDouble(responseTimes),
     p95 |-> percentileDouble(responseTimes, 95),
     p99 |-> percentileDouble(responseTimes, 99),
     max |-> maxDouble(responseTimes)]

TimingSamples == SeqsUpTo(RtTexts, MaxTimed) \ {<<>>}

InitTiming ==
    /\ sample \in TimingSamples
    /\ stat = NoStat
    /\ analyzers = NewAnalyzers
    /\ call = NoCall
    /\ outcome = NoOutcome
    /\ ref = NoRef
    /\ cli = NoCli
    /\ pipeline = NoPipeline
    /\ builder = NewBuilders
    /\ validator = NewValidator
    /\ manager = NoManager

\* analyzeAccessLog, lines 127-137: the statistics of the collected times
ComputeResponseTimeStats ==
    /\ stat = NoStat
    /\ stat' = [op |-> "responseTimeStats", p |-> 0,
                value |-> Some(responseTimeStats([i \in DOMAIN sample |-> Millis[sample[i]]]))]
    /\ UNCHANGED <<sample, analyzers, call, outcome, ref, cli, pipeline, builder, validator, manager>>

NextTiming == ComputeResponseTimeStats

SpecTiming == InitTiming /\ [][NextTiming]_vars

CountBelow(arr, v) == Cardinality({i \in DOMAIN arr : arr[i] < v})
CountUpTo(arr, v) == Cardinality({i \in DOMAIN arr : arr[i] <= v})

\* v is the k-th smallest value of arr (k = 1 is the minimum)
IsKthSmallest(arr, k, v) ==
    /\ v \in Range(arr)
    /\ CountBelow(arr, v) < k
    /\ k <= CountUpTo(arr, v)

KthSmallest(arr, k) == CHOOSE v \in Range(arr) : IsKthSmallest(arr, k, v)

\* the least integer r with r * 100 >= p * n, i.e. ceil(p / 100 * n)
NearestRank(n, p) == CHOOSE r \in 0..n : r * 100 >= p * n /\ (r = 0 \/ (r - 1) * 100 < p * n)

\* C4: for a non-empty sample of n values and p in {95, 99}, percentile returns
\* the element at index ceil(p/100 * n) - 1 of the ascending sample (the value
\* of nearest rank ceil(p/100 * n)), and that index lies in [0, n-1].
C4_PercentileNearestRank ==
    stat.op = "percentile" =>
        LET n == Len(sample)
            rank == NearestRank(n, stat.p)
        IN  /\ rank - 1 \in 0..(n - 1)
            /\ stat.value # None
            /\ IsKthSmallest(sample, rank, stat.value[1])

\* a p95 of an unsorted sample of at least 20 values, which is not the maximum
C4_Witness ==
    /\ stat.op = "percentile"
    /\ stat.p = 95
    /\ Len(sample) >= 20
    /\ sample # SortAscending(sample)
    /\ stat.value # None
    /\ \E i \in DOMAIN sample : sample[i] > stat.value[1]

\* C5: median is the middle element of the ascending sample when n is odd and
\* the mean of the two middle elements when n is even, whatever the input order
\* (stat.value holds twice the median).
C5_MedianMiddle ==
    stat.op = "median" =>
        LET n == Len(sample)
        IN  /\ stat.value # None
            /\ IF n % 2 = 1
               THEN stat.value[1] = 2 * KthSmallest(sample, (n + 1) \div 2)
               ELSE stat.value[1] = KthSmallest(sample, n \div 2)
                                      + KthSmallest(sample, n \div 2 + 1)

\* a median of an unsorted even-length sample whose two middle values differ
C5_Witness ==
    /\ stat.op = "median"
    /\ Len(sample) % 2 = 0
    /\ sample # SortAscending(sample)
    /\ stat.value # None
    /\ KthSmallest(sample, Len(sample) \div 2) # KthSmallest(sample, Len(sample) \div 2 + 1)

(***************************************************************************)
(* Claims about a log analysis                                             *)
(***************************************************************************)
LogResult == outcome.result[1]
LogReturned == call.analyzer = "log" /\ outcome.ok
AccessReturned == LogReturned /\ LogResult.type = "access"
ErrorReturned == LogReturned /\ LogResult.type = "error"

\* the lines of the blob that have the line grammar of the log kind
GrammarLines(content, fmt) == Cardinality({i \in DOMAIN content : content[i].fmt = fmt})

\* C1: the reported total (totalRequests of an access log, totalErrors of an
\* error log) is the number of lines that match the line grammar of that log
\* kind; a line that fails to parse is not counted.
C1_TotalCountsParsedLines ==
    /\ AccessReturned => LogResult.totalRequests = GrammarLines(call.content, "combined")
    /\ ErrorReturned => LogResult.totalErrors = GrammarLines(call.content, "error")

OverParsed(entries, parsed) ==
    \A k \in DOMAIN entries : entries[k].percentage = Percentage(entries[k].count, parsed)

\* C2: every percentage of a log-analysis result (top paths, top client
\* addresses, top error messages, bot traffic, the four status-class shares) has
\* the number of successfully parsed records as its denominator (stated for the
\* results with at least one parsed record).
C2_PercentagesOverParsedRecords ==
    /\ (AccessReturned /\ GrammarLines(call.content, "combined") > 0) =>
        LET parsed == GrammarLines(call.content, "combined")
            classes == LogResult.statusBreakdown
        IN  /\ OverParsed(LogResult.topPaths, parsed)
            /\ OverParsed(LogResult.topIPs, parsed)
            /\ OverParsed(<<LogResult.botTraffic, classes.success, classes.redirect,
                            classes.clientError, classes.serverError>>, parsed)
    /\ (ErrorReturned /\ GrammarLines(call.content, "error") > 0) =>
        OverParsed(LogResult.topErrors, GrammarLines(call.content, "error"))

\* C3: for an access-log sample (at least one line) the status breakdown is
\* exhaustive: the four class counts add up to the reported total, and the four
\* percentages add up to 100.00 within the rounding of four two-decimal values.
C3_StatusBreakdownExhaustive ==
    (AccessReturned /\ LogResult.totalRequests > 0) =>
        LET classes == LogResult.statusBreakdown
            counts == classes.success.count + classes.redirect.count
                        + classes.clientError.count + classes.serverError.count
            shares == classes.success.percentage[1] + classes.redirect.percentage[1]
                        + classes.clientError.percentage[1] + classes.serverError.percentage[1]
        IN  /\ counts = LogResult.totalRequests
            /\ shares >= 10000 - 2
            /\ shares <= 10000 + 2

BenchResult == outcome.result[1]
BenchReturned == call.analyzer = "bench" /\ outcome.ok

\* the points of the first band whose limit x exceeds; bands are <<limit, points>>
Deduction(bands, x) ==
    LET hit == {i \in DOMAIN bands : x > bands[i][1]}
    IN  IF hit = {} THEN 0 ELSE bands[CHOOSE i \in hit : \A j \in hit : i <= j][2]

\* mean latency in microseconds, 0 when the result has none
MeanLatency(r) ==
    IF r.metrics.latency = None \/ r.metrics.latency[1].avg = None THEN 0
    ELSE r.metrics.latency[1].avg[1]

LatencyPoints(r) ==
    Deduction(<<<<1000000, 40>>, <<500000, 25>>, <<200000, 15>>, <<100000, 5>>>>, MeanLatency(r))

\* errors / total in units of 1/100 percent of the total: errors * 100 against
\* pct * total
ErrorPoints(r) ==
    IF r.summary = None \/ r.errors = None THEN 0
    ELSE IF r.errors[1] = 0 THEN 0
    ELSE LET e == r.errors[1] * 100
             t == r.summary[1].totalRequests
         IN  IF e > 10 * t THEN 30
             ELSE IF e > 5 * t THEN 20
             ELSE IF e > 1 * t THEN 10
             ELSE 5

SocketPoints(r) ==
    IF r.socketErrors = None THEN 0
    ELSE Deduction(<<<<100, 20>>, <<10, 10>>, <<0, 5>>>>,
                   r.socketErrors[1][1] + r.socketErrors[1][2]
                     + r.socketErrors[1][3] + r.socketErrors[1][4])

Score(r) == 100 - LatencyPoints(r) - ErrorPoints(r) - SocketPoints(r)

GradeOf(score) ==
    CASE score >= 90 -> "A"
      [] score >= 80 /\ score < 90 -> "B"
      [] score >= 70 /\ score < 80 -> "C"
      [] score >= 60 /\ score < 70 -> "D"
      [] OTHER -> "F"

\* C7: the grade is the letter of 100 - L - E - S (L by mean latency, E by error
\* rate when the total is known and errors > 0, S by summed socket errors), A
\* from 90, B from 80, C from 70, D from 60, F below; mean latency 1200 ms with
\* no errors and no socket errors gives D.
C7_GradeIsLetterOfScore ==
    BenchReturned =>
        /\ BenchResult.grade = GradeOf(Score(BenchResult))
        /\ (/\ MeanLatency(BenchResult) = 1200000
            /\ ErrorPoints(BenchResult) = 0
            /\ SocketPoints(BenchResult) = 0) => BenchResult.grade = "D"

\* a wrk result that loses points for latency, for errors and for socket errors
C7_Witness ==
    /\ BenchReturned
    /\ BenchResult.tool = "wrk"
    /\ LatencyPoints(BenchResult) = 15
    /\ ErrorPoints(BenchResult) = 20
    /\ SocketPoints(BenchResult) = 5
    /\ BenchResult.grade = "D"

(***************************************************************************)
(* Claims about detection and dispatch                                     *)
(***************************************************************************)
LogOrder == <<"error", "access">>

LogSignature(kind, content) ==
    IF kind = "error" THEN Matches(content, HasErrorSignature)
    ELSE Matches(content, HasRequestSignature)

ToolSignature(tool, content) ==
    CASE tool = "wrk" -> {"Running ", "threads and ", "connections"} \subseteq content.frags
      [] tool = "ab" -> {"This is ApacheBench", "ab -"} \cap content.frags # {}
      [] tool = "k6" -> {"k6 run", "execution: local"} \cap content.frags # {}
      [] tool = "autocannon" -> {"autocannon", "Stat    2.5%"} \cap content.frags # {}
      [] tool = "siege" -> {"Transactions:", "siege"} \subseteq content.frags

\* the first kind of the order whose signature the content has, if any
FirstMatch(order, Signature(_, _), content) ==
    LET hits == {i \in DOMAIN order : Signature(order[i], content)}
    IN  IF hits = {} THEN None
        ELSE Some(order[CHOOSE i \in hits : \A j \in hits : i <= j])

\* C8: with kind 'auto' the detector takes the first signature that matches, in
\* the order error, access for logs and wrk, ab, k6, autocannon, siege for
\* benchmarks, also when several match; when none matches analyze throws the
\* detection error and returns no result.
C8_FirstMatchWins ==
    /\ (call.analyzer = "log" /\ call.kind = "auto") =>
        LET first == FirstMatch(LogOrder, LogSignature, call.content)
        IN  IF first = None
            THEN outcome = Throw("Could not detect log type")
            ELSE outcome.ok /\ outcome.result[1].type = first[1]
    /\ (call.analyzer = "bench" /\ call.kind = "auto") =>
        LET first == FirstMatch(Tools, ToolSignature, call.content)
        IN  IF first = None
            THEN outcome = Throw("Could not detect benchmark tool")
            ELSE outcome.ok /\ outcome.result[1].tool = first[1]

\* a blob with the banners of ab, k6 and siege, detected as ab
C8_Witness ==
    /\ call.analyzer = "bench"
    /\ call.kind = "auto"
    /\ ~ToolSignature("wrk", call.content)
    /\ ToolSignature("ab", call.content)
    /\ ToolSignature("k6", call.content)
    /\ ToolSignature("siege", call.content)
    /\ outcome.ok
    /\ BenchResult.tool = "ab"

DocumentedLogKinds == {"access", "error", "auto"}
DocumentedTools == {"wrk", "ab", "k6", "autocannon", "siege", "auto"}

Failed(error) == ~outcome.ok /\ outcome.error = error /\ outcome.result = None

\* C10 as stated: analyze with an explicit kind outside the documented set fails
\* with the unknown-format / unknown-tool error and produces no result.
C10_UndocumentedKindFails ==
    /\ (call.analyzer = "log" /\ call.kind \notin DocumentedLogKinds) =>
        Failed("Unknown log type")
    /\ (call.analyzer = "bench" /\ call.kind \notin DocumentedTools) =>
        Failed("Unknown benchmark tool")

AcceptedTools == {"wrk", "ab", "apachebench", "k6", "autocannon", "siege"}

\* C10 amended: LogAnalyzer.analyze with a kind other than 'access', 'error' and
\* 'auto' fails with the unknown-log-type error; BenchmarkAnalyzer.analyze with a
\* tool other than 'auto' whose lower-case form is none of wrk, ab, apachebench,
\* k6, autocannon, siege fails with the unknown-tool error; neither produces a
\* result, and every other explicit kind is dispatched to its parser.
C10_UnacceptedKindFails ==
    /\ (call.analyzer = "log" /\ call.kind # "auto") =>
        IF call.kind \in {"access", "error"}
        THEN outcome.ok /\ LogResult.type = call.kind
        ELSE Failed("Unknown log type")
    /\ (call.analyzer = "bench" /\ call.kind # "auto") =>
        IF toLowerCase(call.kind) \in AcceptedTools
        THEN outcome.ok
        ELSE Failed("Unknown benchmark tool")

\* a log analysis asked for with a benchmark tool name as its kind
C10_Witness ==
    /\ call.analyzer = "log"
    /\ call.kind = "wrk"
    /\ Len(call.content) > 0
    /\ Failed("Unknown log type")

(***************************************************************************)
(* Claims about the security scan and the recommendation rules of a log    *)
(***************************************************************************)
\* the indicator families as the description of the scan names them
InjectionIndicators ==
    {"'", "\""} \cup {";"} \cup {"--", "/*", "*/"}
    \cup {"union", "select", "insert", "delete", "drop", "update", "exec"}
SystemDirectories == {"etc", "proc", "var"}

HasInjectionIndicator(path) ==
    \E i \in DOMAIN path : toLowerCase(path[i]) \in InjectionIndicators
HasTraversalIndicator(path) ==
    \/ \E i \in DOMAIN path : path[i] = ".."
    \/ \E i \in 1..(Len(path) - 1) : toLowerCase(path[i]) \in SystemDirectories

\* the issues of the given type, each as the list of paths it names
IssuePaths(issues, type) ==
    LET hits == Pick(issues, {k \in DOMAIN issues : issues[k].type = type})
    IN  [k \in DOMAIN hits |-> hits[k].paths]

\* what one family of indicators has to report: nothing, or one issue with the
\* matching top paths in top-path order
Reported(top, Indicator(_)) ==
    LET hits == Pick(top, {i \in DOMAIN top : Indicator(top[i])})
    IN  IF hits = <<>> THEN <<>> ELSE <<hits>>

\* C11: an access-log result has exactly one 'sql-injection' issue iff a top
\* path contains an injection indicator, and exactly one 'path-traversal' issue
\* iff a top path contains a traversal indicator; each issue lists exactly the
\* matching top paths, in top-path order; both are reported when both match,
\* and there is no other issue.
C11_SecurityIssuesMatchTopPaths ==
    AccessReturned =>
        LET top == Keys(LogResult.topPaths)
            issues == LogResult.securityIssues
        IN  /\ IssuePaths(issues, "sql-injection") = Reported(top, HasInjectionIndicator)
            /\ IssuePaths(issues, "path-traversal") = Reported(top, HasTraversalIndicator)
            /\ \A k \in DOMAIN issues : issues[k].type \in {"sql-injection", "path-traversal"}

\* two top paths, both with an injection indicator and one of them also with a
\* traversal indicator: two issues, the first naming both paths in order
C11_Witness ==
    /\ AccessReturned
    /\ Len(LogResult.topPaths) = 2
    /\ Len(LogResult.securityIssues) = 2
    /\ LogResult.securityIssues[1].type = "sql-injection"
    /\ LogResult.securityIssues[1].paths = Keys(LogResult.topPaths)
    /\ LogResult.securityIssues[2].type = "path-traversal"
    /\ Len(LogResult.securityIssues[2].paths) = 1

\* the request paths of the well-formed lines of a log, without their query
\* strings, in line order
RequestPaths(content) ==
    LET hits == Pick(content, {i \in DOMAIN content : content[i].fmt = "combined"})
    IN  [k \in DOMAIN hits |-> StripQuery(hits[k].path)]

Occurrences(keys, key) == Cardinality({i \in DOMAIN keys : keys[i] = key})
FirstSeen(keys, key) == CHOOSE i \in DOMAIN keys : keys[i] = key /\ \A j \in 1..(i - 1) : keys[j] # key

\* the rank of a key by count: one more than the number of keys with a larger
\* count, or with the same count and seen earlier
Rank(keys, key) ==
    1 + Cardinality({other \in Range(keys) :
            \/ Occurrences(keys, other) > Occurrences(keys, key)
            \/ /\ Occurrences(keys, other) = Occurrences(keys, key)
               /\ FirstSeen(keys, other) < FirstSeen(keys, key)})

NamedPaths(issues) == UNION {Range(issues[k].paths) : k \in DOMAIN issues}

\* C12: every path named in a security issue of an access-log result is one of
\* the at most 10 entries of its topPaths; a request path that ranks outside
\* the top 10 by count is never reported, whatever it contains.
C12_IssuesNameTopPathsOnly ==
    AccessReturned =>
        LET requested == RequestPaths(call.content)
            named == NamedPaths(LogResult.securityIssues)
        IN  /\ Len(LogResult.topPaths) <= 10
            /\ named \subseteq Range(Keys(LogResult.topPaths))
            /\ \A path \in Range(requested) : Rank(requested, path) > 10 => path \notin named

\* eleven distinct paths were requested, the one with injection and traversal
\* indicators ranks eleventh or lower, and no issue is reported
C12_Witness ==
    /\ AccessReturned
    /\ Len(LogResult.topPaths) = 10
    /\ \E path \in Range(RequestPaths(call.content)) :
        /\ Rank(RequestPaths(call.content), path) > 10
        /\ HasInjectionIndicator(path)
        /\ HasTraversalIndicator(path)
    /\ LogResult.securityIssues = <<>>

\* the results the access-log rules were applied to and the list they gave
AccessRulesApplied == AccessReturned \/ (call.analyzer = "rules" /\ call.kind = "access")
RulesInput == IF call.analyzer = "rules" THEN call.content ELSE outcome.result[1]
RulesOutput ==
    IF call.analyzer = "rules" THEN outcome.result[1] ELSE outcome.result[1].recommendations

\* count / total > pct percent, as a comparison of integers (nothing is above a
\* threshold when there is no traffic)
FractionAbove(count, total, pct) == total > 0 /\ count * 100 > pct * total

CountOf(entries, Test(_)) ==
    LET hits == {k \in DOMAIN entries : Test(entries[k].key)}
    IN  IF hits = {} THEN 0 ELSE SumCounts(Pick(entries, hits))

Labels(recommendations) ==
    [k \in DOMAIN recommendations |->
        <<recommendations[k].severity, recommendations[k].category>>]

\* C13: the access-log rules are independent threshold checks: 'errors' (high)
\* iff 5xx / total > 5%, 'not-found' (medium) iff 404 / total > 10%, one
\* 'performance' iff p95 > 500 ms (high above 1000 ms, medium otherwise), 'bots'
\* (medium) iff the bot fraction > 30%, 'security' (high) iff the busiest client
\* has more than 50% of the traffic; all that fire appear, in that order.
C13_AccessRulesIndependentThresholds ==
    AccessRulesApplied =>
        LET r == RulesInput
            total == r.totalRequests
            p95 == IF r.responseTimeStats = None THEN None ELSE r.responseTimeStats[1].p95
            busiest == IF r.topIPs = <<>> THEN 0 ELSE r.topIPs[1].count
        IN  Labels(RulesOutput) =
                When(FractionAbove(CountOf(r.statusCodes, IsServerError), total, 5),
                     <<"high", "errors">>)
                \o When(FractionAbove(CountOf(r.statusCodes, LAMBDA code : code = 404), total, 10),
                        <<"medium", "not-found">>)
                \o When(p95 # None /\ p95[1] > 500,
                        <<IF p95[1] > 1000 THEN "high" ELSE "medium", "performance">>)
                \o When(FractionAbove(r.botTraffic.count, total, 30), <<"medium", "bots">>)
                \o When(FractionAbove(busiest, total, 50), <<"high", "security">>)

(***************************************************************************)
(* Claims about the recommendation rules of a benchmark                    *)
(***************************************************************************)
InCategory(recommendations, category) ==
    Labels(Pick(recommendations,
                {k \in DOMAIN recommendations : recommendations[k].category = category}))

\* requests per second of a result, None when the result has none
RequestRate(r) ==
    IF r.metrics.requestsPerSec = None THEN None ELSE r.metrics.requestsPerSec[1].avg

\* errors and total requests of a result when both are known
ErrorRateKnown(r) == r.errors # None /\ r.summary # None
ErrorRateAbove(r, pct) ==
    ErrorRateKnown(r) /\ r.errors[1] * 100 > pct * r.summary[1].totalRequests

SocketErrorSum(r) ==
    IF r.socketErrors = None THEN 0
    ELSE r.socketErrors[1][1] + r.socketErrors[1][2] + r.socketErrors[1][3]
            + r.socketErrors[1][4]

FirstOf(choices) ==
    LET hit == {i \in DOMAIN choices : choices[i][1]}
    IN  IF hit = {} THEN <<>>
        ELSE <<choices[CHOOSE i \in hit : \A j \in hit : i <= j][2]>>

\* C14: the benchmark rules fire independently: at most one 'latency'
\* recommendation (high above 1000 ms mean latency, medium above 500 ms, low
\* above 200 ms), at most one 'throughput' recommendation (medium below 100
\* RPS, info above 10000 RPS), at most one 'errors' recommendation (high above
\* 5% error rate, medium above 1%), and a high 'socket-errors' recommendation
\* iff the summed socket errors are > 0.
C14_BenchmarkRulesIndependent ==
    BenchReturned =>
        LET r == BenchResult
            list == r.recommendations
            rps == RequestRate(r)
        IN  /\ InCategory(list, "latency") =
                FirstOf(<<<<MeanLatency(r) > 1000 * 1000, <<"high", "latency">>>>,
                          <<MeanLatency(r) > 500 * 1000, <<"medium", "latency">>>>,
                          <<MeanLatency(r) > 200 * 1000, <<"low", "latency">>>>>>)
            /\ InCategory(list, "throughput") =
                FirstOf(<<<<rps # None /\ rps[1] < 100, <<"medium", "throughput">>>>,
                          <<rps # None /\ rps[1] > 10000, <<"info", "throughput">>>>>>)
            /\ InCategory(list, "errors") =
                FirstOf(<<<<ErrorRateAbove(r, 5), <<"high", "errors">>>>,
                          <<ErrorRateAbove(r, 1), <<"medium", "errors">>>>>>)
            /\ InCategory(list, "socket-errors") =
                When(SocketErrorSum(r) > 0, <<"high", "socket-errors">>)
            /\ \A k \in DOMAIN list :
                list[k].category \in {"latency", "throughput", "errors", "socket-errors"}

\* a wrk result in which all four rules fire
C14_Witness ==
    /\ BenchReturned
    /\ Labels(BenchResult.recommendations) =
        <<<<"high", "latency">>, <<"medium", "throughput">>, <<"medium", "errors">>,
          <<"high", "socket-errors">>>>
    /\ BenchResult.errors[1] * 100 = 5 * BenchResult.summary[1].totalRequests

Categories(recommendations) ==
    {recommendations[k].category : k \in DOMAIN recommendations}

ReportedLine(content, tool, field) ==
    IF content.dialect = tool THEN content[field] ELSE None

\* C16: a field the tool's output does not report is absent from the result,
\* not defaulted: the error count is present only when the output has an error
\* / failed-requests line, and a latency or requests/sec entry is present only
\* when its value was found.
C16_UnreportedFieldsAbsent ==
    BenchReturned =>
        LET r == BenchResult
        IN  /\ r.errors # None => ReportedLine(call.content, r.tool, "errors") # None
            /\ r.metrics.latency # None => r.metrics.latency[1].avg # None
            /\ r.metrics.requestsPerSec # None => r.metrics.requestsPerSec[1].avg # None

(***************************************************************************)
(* Claims about the top lists and the timing sample of a log               *)
(***************************************************************************)
\* the keys of the lines of a log that have the given line grammar, in line order
ClientAddresses(content) ==
    LET hits == Pick(content, {i \in DOMAIN content : content[i].fmt = "combined"})
    IN  [k \in DOMAIN hits |-> hits[k].ip]

ErrorMessages(content) ==
    LET hits == Pick(content, {i \in DOMAIN content : content[i].fmt = "error"})
    IN  [k \in DOMAIN hits |-> hits[k].message[1]]

\* list is the top list of the keys: its k-th entry is the key of rank k with
\* its count, for the first 10 ranks
IsTopList(list, keys) ==
    /\ Len(list) <= 10
    /\ Len(list) = IF Cardinality(Range(keys)) < 10 THEN Cardinality(Range(keys)) ELSE 10
    /\ \A k \in DOMAIN list :
        /\ list[k].key \in Range(keys)
        /\ list[k].count = Occurrences(keys, list[k].key)
        /\ Rank(keys, list[k].key) = k

AnnotatedTimes(content) ==
    LET hits == Pick(content, {i \in DOMAIN content :
                        content[i].fmt = "combined" /\ content[i].rt # None})
    IN  [k \in DOMAIN hits |-> hits[k].rt[1].sec * 1000 + hits[k].rt[1].milli]

\* C18: the timing sample of an access-log result holds exactly the response
\* times of the parsed records that carry an rt= annotation, one value per
\* record, in milliseconds, a value of 0 included; records without the
\* annotation contribute nothing; the response time statistics are absent
\* exactly when no parsed record carries the annotation.
C18_TimingSampleIsAnnotatedRecords ==
    AccessReturned =>
        /\ LogResult.responseTimes = AnnotatedTimes(call.content)
        /\ LogResult.responseTimeStats = None <=> AnnotatedTimes(call.content) = <<>>

(***************************************************************************)
(* Claims about the analyze-logs and analyze-benchmark commands            *)
(***************************************************************************)
Exited == cli.pc = "exited"
Threw(step) == step \in Range(cli.thrown)

\* the analyses the command line asks for, and the reports printed
RequestedAnalyses == IF cli.command = "analyze-logs" /\ cli.errorFile # None THEN 2 ELSE 1
PrintedReports ==
    Cardinality({k \in DOMAIN cli.stdout :
                    cli.stdout[k][1] \in {"Log Analysis", "Benchmark Analysis"}})
CompletePrinted == <<"Analysis complete!">> \in Range(cli.stdout)

\* C19: the process exits with status 1 whenever reading a file, detecting the
\* format or analyzing throws, and otherwise finishes with status 0 after
\* printing the formatted report of every requested analysis; 'Analysis
\* complete!' is printed only when every requested analysis succeeded, and no
\* exit with status 0 follows a thrown error.
C19_ExitStatusFollowsAnalysis ==
    /\ Exited =>
        IF Threw("read") \/ Threw("analyze")
        THEN cli.exit = Some(1)
        ELSE cli.exit = Some(0) /\ PrintedReports = RequestedAnalyses
    /\ CompletePrinted => ~Threw("read") /\ ~Threw("analyze") /\ cli.stage = RequestedAnalyses
    /\ cli.exit = Some(0) => cli.thrown = <<>>

(***************************************************************************)
(* Claims about the k6 parser                                              *)
(***************************************************************************)
K6Called ==
    /\ call.analyzer = "bench"
    /\ \/ call.kind \in {"k6", "K6"}
       \/ call.kind = "auto" /\ outcome.ok /\ outcome.result[1].tool = "k6"

\* the mean latency (microseconds) and request rate a metrics entry carries
EntryValue(entry) == IF entry = None THEN None ELSE entry[1].avg

\* what the structured payload says, and what the text summary lines say
PayloadLatency(json) ==
    IF json.metrics = None \/ json.metrics[1].http_req_duration = None THEN None
    ELSE Some(json.metrics[1].http_req_duration[1] * 1000)
PayloadRate(json) == IF json.metrics = None THEN None ELSE json.metrics[1].http_reqs

TextLatency(content) ==
    LET line == ReportedLine(content, "k6", "latency")
    IN  IF line = None THEN None
        ELSE Some(CASE line[1].unit = "us" -> line[1].value
                    [] line[1].unit = "ms" -> line[1].value * 1000
                    [] line[1].unit = "s" -> line[1].value * 1000000)
TextRate(content) ==
    LET line == ReportedLine(content, "k6", "rps")
    IN  IF line = None THEN None ELSE Some(line[1].value)

\* C20: analyzeK6 parses the whole content as a structured (JSON) payload
\* first; when that succeeds the metrics come from the payload only and the
\* text scan is not run; the text scan runs exactly when the structured parse
\* fails; the parse failure never reaches the caller.
C20_StructuredPayloadFirst ==
    K6Called =>
        /\ outcome.ok
        /\ LET r == BenchResult
               content == call.content
           IN  IF content.json # None
               THEN /\ EntryValue(r.metrics.latency) = PayloadLatency(content.json[1])
                    /\ EntryValue(r.metrics.requestsPerSec) = PayloadRate(content.json[1])
               ELSE /\ EntryValue(r.metrics.latency) = TextLatency(content)
                    /\ EntryValue(r.metrics.requestsPerSec) = TextRate(content)

\* a structured payload whose strings also match the text patterns: the mean
\* latency is the payload's 100 ms, not the 1200 ms of the quoted text
C20_Witness ==
    /\ K6Called
    /\ outcome.ok
    /\ call.content.json # None
    /\ TextLatency(call.content) = Some(1200 * 1000)
    /\ TextRate(call.content) = Some(99)
    /\ EntryValue(BenchResult.metrics.latency) = Some(100 * 1000)
    /\ EntryValue(BenchResult.metrics.requestsPerSec) = None

(***************************************************************************)
(* C21: magnitude suffixes of the wrk summary                              *)
(***************************************************************************)
WrkCalled ==
    /\ call.analyzer = "bench"
    /\ outcome.ok
    /\ BenchResult.tool = "wrk"

\* the plain count a figure of the summary stands for
PlainCount(token) == IF token.suffix = "k" THEN token.value * 1000 ELSE token.value

\* C21: a Req/Sec figure or a total-requests figure of a wrk summary written
\* with a k suffix is reported multiplied by 1000, and one written without a
\* suffix is reported unchanged.
C21_MagnitudeSuffixScaled ==
    WrkCalled =>
        LET rate == ReportedLine(call.content, "wrk", "rps")
            total == ReportedLine(call.content, "wrk", "total")
        IN  /\ rate # None =>
                EntryValue(BenchResult.metrics.requestsPerSec) = Some(PlainCount(rate[1]))
            /\ total # None =>
                BenchResult.summary = Some([totalRequests |-> PlainCount(total[1])])

(***************************************************************************)
(* C22: order of the detector and the recommendation engine                *)
(***************************************************************************)
\* C22: in an access-log analysis the security detector runs on the aggregate
\* before the recommendation engine, and the engine is given the detected
\* security issues together with the aggregate.
C22_DetectorBeforeRecommendations ==
    /\ pipeline.given # None => pipeline.given[1].securityIssues # None
    /\ (pipeline.results # None /\ pipeline.results[1].securityIssues = None) =>
            pipeline.given = None

\* the pipeline agrees with the one-step analyzeAccessLog of the other specifications
PipelineAgrees ==
    pipeline.pc = "line 146" =>
        LET r == pipeline.results[1]
            whole == analyzeAccessLog(pipeline.lines)
        IN  /\ r.recommendations = whole.recommendations
            /\ r.securityIssues = Some(whole.securityIssues)
            /\ r.topPaths = whole.topPaths

(***************************************************************************)
(* C24, C25: ConfigBuilder.validate and the state round trip               *)
(***************************************************************************)
Http3Warning == "HTTP/3 requires HTTP/2 - enabling HTTP/2"

\* validate() has to switch http2 on: SSL is enabled with http3 and without http2
NeedsHttp2(b) ==
    /\ Flag(b.config.ssl, "enabled")
    /\ Flag(b.config.ssl, "http3")
    /\ ~Flag(b.config.ssl, "http2")

\* C24: after validate() returns, whatever setters were called before it, SSL
\* enabled with http3 = true implies http2 = true; when validate had to switch
\* http2 on it records a warning and no error for it; and the result has
\* valid = true exactly when its error list is empty.
C24_ValidateEnablesHttp2 ==
    [][builder'.op = "validate" =>
        LET before == builder.original
            after == builder'.original
            result == builder'.result[1]
        IN  /\ result.ok
            /\ (Flag(after.config.ssl, "enabled") /\ Flag(after.config.ssl, "http3"))
                    => after.config.ssl.http2 = TRUE
            /\ NeedsHttp2(before) =>
                    /\ Http3Warning \in Range(result.result[1].warnings)
                    /\ Http3Warning \in Range(after.warnings)
                    /\ \A k \in DOMAIN result.result[1].errors :
                            result.result[1].errors[k] \in
                                {"Pattern is required", "Primary domain is required",
                                 "Custom SSL requires certPath and keyPath"}
            /\ result.result[1].valid = (result.result[1].errors = <<>>)
            /\ result.result[1].errors = after.errors]_vars

\* validate switched http2 on for a configuration that is otherwise valid
C24_Witness ==
    /\ builder.op = "validate"
    /\ builder.result[1].result[1].valid
    /\ Http3Warning \in Range(builder.result[1].result[1].warnings)
    /\ builder.original.config.ssl.http2
    /\ builder.original.config.ssl.http3
    /\ builder.original.config.customDirectives # <<>>

ConfigKeys == {"pattern", "domain", "ssl", "performance", "security", "features",
               "customDirectives"}

\* C25: a new ConfigBuilder that calls importState(exportState()) of a builder
\* in any state reached through its setters has the same pattern, domain, ssl,
\* performance, security, features and customDirectives as the original.
C25_ExportImportRoundTrip ==
    builder.op = "importState" =>
        /\ builder.copy # None
        /\ \A key \in ConfigKeys :
                builder.copy[1].config[key] = builder.original.config[key]

\* the round trip of a builder on which only some setters were called: ssl is
\* still {} and the pattern is set
C25_Witness ==
    /\ builder.op = "importState"
    /\ builder.original.config.ssl = <<>>
    /\ builder.original.config.pattern = "hybrid"
    /\ builder.original.config.domain # <<>>
    /\ builder.original.config.customDirectives # <<>>
    /\ builder.copy[1].config.pattern = "hybrid"

(***************************************************************************)
(* C23: update --auto-apply                                                *)
(***************************************************************************)
UpdateFinished == manager.pc \in {"done", "failed"}
\* the command was started on a state file written by the wizard: the
\* configuration keys are at the top level of the file
OnWizardState == manager.before # None /\ "config" \notin DOMAIN manager.before[1]
OnNestedState == manager.before # None /\ "config" \in DOMAIN manager.before[1]

\* C23: update --auto-apply on a state file written by the wizard applies the
\* action of every reported update, then saves the state file; afterwards
\* checkForUpdates on the saved state reports no updates.  If an action
\* fails, the state file on disk is left unchanged.
C23_AutoApplyAppliesAndSaves ==
    /\ manager.thrown # None => manager.disk = manager.before
    /\ manager.saved => manager.applied = manager.updates
    /\ (UpdateFinished /\ OnWizardState) =>
            /\ manager.thrown = None
            /\ manager.applied = manager.updates
            /\ manager.updates # <<>> => manager.saved
            /\ checkForUpdates(manager.disk[1]) = <<>>

\* on a state file that keeps the configuration under config, the command does
\* what C23 describes
NestedStatesConverge ==
    /\ manager.thrown # None => manager.disk = manager.before
    /\ manager.saved => manager.applied = manager.updates
    /\ (UpdateFinished /\ OnNestedState) =>
            /\ manager.thrown = None
            /\ manager.applied = manager.updates
            /\ manager.updates # <<>> => manager.saved
            /\ checkForUpdates(manager.disk[1]) = <<>>

(***************************************************************************)
(* C26: the lists of a Validator                                           *)
(***************************************************************************)
IsPrefix(s, t) == Len(s) <= Len(t) /\ SubSeq(t, 1, Len(s)) = s

\* the errors and warnings validateConfig(config) records on a Validator that
\* has recorded nothing before
RecordedAlone(config) == validateConfig([errors |-> <<>>, warnings |-> <<>>], config).v

\* C26: a Validator keeps its errors and warnings across validate* calls until
\* clear() empties both lists; validateConfig starts from empty lists, so
\* messages recorded by earlier calls are not in its result, and its result
\* has valid = true exactly when no error was recorded during that call.
C26_ValidatorListsKeptUntilCleared ==
    [][/\ validator'.op \in {"validateDomain", "validatePort", "validatePath",
                             "validateSSL", "getErrors"} =>
            /\ IsPrefix(validator.errors, validator'.errors)
            /\ IsPrefix(validator.warnings, validator'.warnings)
       /\ validator'.op = "getErrors" =>
            /\ validator'.errors = validator.errors
            /\ validator'.result[1].errors = validator.errors
            /\ validator'.result[1].warnings = validator.warnings
       /\ validator'.op = "clear" => validator'.errors = <<>> /\ validator'.warnings = <<>>
       /\ validator'.op = "validateConfig" =>
            LET result == validator'.result[1]
                alone == RecordedAlone(validator'.arg[1])
            IN  /\ result.errors = alone.errors
                /\ result.warnings = alone.warnings
                /\ validator'.errors = alone.errors
                /\ validator'.warnings = alone.warnings
                /\ result.valid = (alone.errors = <<>>)]_vars

\* validateConfig returned valid = true, with a warning of its own, on a
\* Validator whose lists held the messages of earlier calls
C26_Witness ==
    /\ validator.op = "validateConfig"
    /\ validator.held = MaxMessages
    /\ validator.result[1].valid
    /\ validator.result[1].warnings # <<>>
    /\ validator.errors = <<>>
    /\ "domain" \in DOMAIN validator.arg[1]
    /\ "aliases" \in DOMAIN validator.arg[1].domain

(***************************************************************************)
(* C27: profile detection and its recommendations                          *)
(***************************************************************************)
ProfileDetected == call.analyzer = "smart" /\ call.kind = "detectProfile"
Recommended == call.analyzer = "smart" /\ call.kind = "getRecommendations"

\* the profile the documented priority gives
ProfileByPriority(config) ==
    LET provider == IF "ssl" \in DOMAIN config /\ "provider" \in DOMAIN config.ssl
                    THEN config.ssl.provider ELSE "none"
        pattern == IF "pattern" \in DOMAIN config THEN config.pattern ELSE "none"
        proxy == /\ "features" \in DOMAIN config
                 /\ "proxy" \in DOMAIN config.features
                 /\ config.features.proxy
    IN  CASE provider = "cloudflare" -> "cdn-origin"
          [] provider # "cloudflare" /\ pattern \in {"microservices", "spa-with-api"} ->
                "api-gateway"
          [] provider # "cloudflare" /\ pattern = "static-only" /\ ~proxy -> "static-site"
          [] OTHER -> "balanced"

UsesDetectedProfile(config) ==
    /\ "performance" \in DOMAIN config
    /\ "profile" \in DOMAIN config.performance
    /\ config.performance.profile = ProfileByPriority(config)

\* the two checks that depend on the pattern: worker connections of
\* microservices, open_file_cache of static-only
PatternCheckApplies(config) ==
    LET pattern == IF "pattern" \in DOMAIN config THEN config.pattern ELSE "none"
        performance == IF "performance" \in DOMAIN config THEN config.performance ELSE <<>>
    IN  \/ /\ pattern = "microservices"
           /\ "connections" \in DOMAIN performance
           /\ performance.connections < 2048
        \/ /\ pattern = "static-only"
           /\ ~("openFileCache" \in DOMAIN performance
                    /\ performance.openFileCache.enabled)

\* the check that depends on the profile in use: compression behind a CDN
CompressionCheckApplies(config) ==
    /\ "performance" \in DOMAIN config
    /\ "profile" \in DOMAIN config.performance
    /\ config.performance.profile = "cdn-origin"
    /\ "features" \in DOMAIN config
    /\ "compression" \in DOMAIN config.features
    /\ config.features.compression

\* C27 (as stated): detectProfile follows the fixed priority cdn-origin,
\* api-gateway, static-site, balanced; getRecommendations returns an empty
\* list when the config already uses the detected profile and none of the
\* pattern-specific checks applies.
C27_EmptyWhenPatternChecksPass ==
    /\ ProfileDetected => outcome.result[1].profile = ProfileByPriority(call.content)
    /\ (Recommended /\ UsesDetectedProfile(call.content)
            /\ ~PatternCheckApplies(call.content)) =>
                outcome.result[1].recommendations = <<>>

\* C27 (amended): detectProfile follows the fixed priority; getRecommendations
\* returns an empty list exactly when the config already uses the detected
\* profile, none of the pattern-specific checks applies, and the compression
\* check (profile cdn-origin with features.compression on) does not apply.
C27_EmptyWhenNoCheckApplies ==
    /\ ProfileDetected => outcome.result[1].profile = ProfileByPriority(call.content)
    /\ Recommended =>
            (outcome.result[1].recommendations = <<>>) =
                (/\ UsesDetectedProfile(call.content)
                 /\ ~PatternCheckApplies(call.content)
                 /\ ~CompressionCheckApplies(call.content))

\* a cloudflare origin with the microservices pattern that already uses the
\* cdn-origin profile, with 2048 connections and compression on nowhere:
\* nothing is recommended, so cdn-origin is what detectProfile gave
C27_Witness ==
    /\ Recommended
    /\ DOMAIN call.content = {"pattern", "ssl", "features", "performance"}
    /\ call.content.pattern = "microservices"
    /\ call.content.ssl.provider = "cloudflare"
    /\ call.content.features = [proxy |-> TRUE]
    /\ call.content.performance = [profile |-> "cdn-origin", connections |-> 2048]
    /\ outcome.result[1].recommendations = <<>>

(***************************************************************************)
(* C28..C30: reports, order statistics, grade and recommendations          *)
(***************************************************************************)
\* C28: formatResults returns a text report without throwing for every result
\* analyze can return, partial benchmark results included (a latency mean or a
\* requests/sec value that was not found in the tool output).
C28_FormatResultsNeverThrows ==
    /\ LogReturned => formatLogResults(LogResult).ok
    /\ BenchReturned => formatBenchmarkResults(BenchResult).ok

Severities(recommendations) ==
    {recommendations[k].severity : k \in DOMAIN recommendations}

\* C30: a benchmark result graded 'A' carries no recommendation of severity
\* 'high'.
C30_GradeANoHighSeverity ==
    (BenchReturned /\ BenchResult.grade = "A") =>
        "high" \notin Severities(BenchResult.recommendations)

(***************************************************************************)
(* C29: in every access-log result that carries response-time statistics,  *)
(* the statistics are consistent for every non-empty timing sample:        *)
(* median <= p95 <= p99 <= max, and avg <= max.                            *)
(***************************************************************************)
TimingComputed == stat.op = "responseTimeStats"

C29_OrderStatisticsConsistent ==
    TimingComputed =>
        LET stats == stat.value[1]
        IN  /\ AtMost(stats.median, stats.p95)
            /\ AtMost(stats.p95, stats.p99)
            /\ AtMost(stats.p99, stats.max)
            /\ AtMost(stats.avg, stats.max)

\* the part of C29 that holds: the order statistics proper
OrderStatisticsChain ==
    TimingComputed =>
        LET stats == stat.value[1]
        IN  /\ AtMost(stats.median, stats.p95)
            /\ AtMost(stats.p95, stats.p99)
            /\ AtMost(stats.p99, stats.max)

\* five lines that all carry rt=2.007
FiveEqualTimes == sample = <<2007, 2007, 2007, 2007, 2007>>

AverageAboveMax ==
    TimingComputed /\ FiveEqualTimes => ~Less(stat.value[1].max, stat.value[1].avg)
====
